---- MODULE Spec2Model ----
(***************************************************************************)
(* The scan-fill triangulator of source/blender/blenlib/intern/scanfill.cc *)
(* as a state machine.  Vertices and edges live in two arenas (sequences   *)
(* of records, a reference is an index, 0 is the null pointer); the three  *)
(* list bases of the context are sequences of references.  Coordinates are *)
(* integers: every geometric predicate of the source is then exact, and    *)
(* float comparisons are modelled by the same comparison on exact values.  *)
(***************************************************************************)
EXTENDS Integers, Sequences, FiniteSets, TLC

(* ------------------------------------------------------------------ *)
(* Bounds of the model                                                 *)
(* ------------------------------------------------------------------ *)
\* closed loops of the enumerated family have 3 .. MaxLoopLen vertices
MaxLoopLen == 4
\* calc is run at most MaxCalls times on one context
MaxCalls == 2
\* an out-of-bounds write or a null dereference may leave any return value
\* in 0 .. MaxUbRet to the caller
MaxUbRet == 1
\* the enumerated loops take their points from the grid 0 .. GridMax squared
GridMax == 2
\* side of the outer square of the two-loop inputs
OuterSide == 3
\* a context is used for at most MaxCycles sessions, one after the other
MaxCycles == 4
\* the contexts with coinciding vertices have at most MaxZeroEdges edges
\* between them
MaxZeroEdges == 3
\* the graphs given to the partition step have at most MaxFloodEdges edges
MaxFloodEdges == 3
\* a caller that numbers the polygons itself goes up to MaxPresetPoly
MaxPresetPoly == 1

(* ------------------------------------------------------------------ *)
(* Program constants (the SF_ prefix of the source is dropped: SF_ is  *)
(* the strong-fairness operator of TLA+)                               *)
(* ------------------------------------------------------------------ *)
VERT_NEW == 0
VERT_AVAILABLE == 1
VERT_ZERO_LEN == 2
EDGE_NEW == 0
EDGE_INTERNAL == 2
POLY_NEW == 0
POLY_VALID == 1
\* (unsigned short)-1, the value BLI_scanfill_begin stores in sf_ctx->poly_nr
POLY_UNSET == 65535
\* the degree ceiling of STEP 2
MaxEdgeCount == 250
\* unsigned char edge_count wraps at 2^8, unsigned short poly at 2^16
UCharMod == 256
UShortMod == 65536
\* 1.0e20f, the initial bounding box of a PolyFill.  It is only ever
\* compared with coordinates, so the model uses a value above every
\* coordinate that TLC's integers can hold.
BoundInit == 1000000000

\* the four bits of `flag`, as members of a set
FlagNames == {"REMOVE_DOUBLES", "POLYS", "HOLES", "LOOSE"}

(* ------------------------------------------------------------------ *)
(* Small helpers on lists (BLI_listbase)                               *)
(* ------------------------------------------------------------------ *)
BLI_remlink(list, x) == SelectSeq(list, LAMBDA y : y # x)
BLI_addtail(list, x) == Append(list, x)
Reverse(s) == [i \in 1..Len(s) |-> s[Len(s) + 1 - i]]
Range(s) == {s[i] : i \in 1..Len(s)}
Min2(p, q) == IF p < q THEN p ELSE q
Max2(p, q) == IF p > q THEN p ELSE q
\* a loop "for k = lo .. hi: st = Op(st, k)".  The range is halved, and each
\* half is evaluated before the next begins, so that a loop over a long
\* list does not nest as deep as the list is long.
RECURSIVE Fold(_, _, _, _)
Fold(Op(_, _), st, lo, hi) ==
  IF lo > hi THEN st
  ELSE IF lo = hi THEN Op(st, lo)
  ELSE LET mid == (lo + hi) \div 2
           left == Fold(Op, st, lo, mid)
       IN IF left = left THEN Fold(Op, left, mid + 1, hi) ELSE st

\* index of the first occurrence of x in s, 0 when absent
RECURSIVE IndexFrom(_, _, _)
IndexFrom(s, x, i) ==
  IF i > Len(s) THEN 0 ELSE IF s[i] = x THEN i ELSE IndexFrom(s, x, i + 1)
IndexOf(s, x) == IndexFrom(s, x, 1)
InsertBefore(s, i, x) == SubSeq(s, 1, i - 1) \o <<x>> \o SubSeq(s, i, Len(s))

(* ------------------------------------------------------------------ *)
(* The context: arenas and list bases                                  *)
(* ------------------------------------------------------------------ *)
VARIABLES
  vert,          \* arena of ScanFillVert records
  edge,          \* arena of ScanFillEdge records
  fillvertbase,  \* sf_ctx->fillvertbase
  filledgebase,  \* sf_ctx->filledgebase
  fillfacebase,  \* sf_ctx->fillfacebase: triples <<v1, v2, v3>>
  poly_nr,       \* sf_ctx->poly_nr
  input,         \* what the caller adds, the flags it may pass, its calls
  flag,          \* calc: the argument `flag`, as a set of flag names
  pc,            \* position of the caller / of BLI_scanfill_calc_ex
  ncalls,        \* number of calls of calc started
  n,             \* calc: the projection normal
  poly,          \* calc: number of polygons
  pflist,        \* calc: the PolyFill array (index a + 1 holds pflist[a])
  tempve,        \* calc: tempve
  temped,        \* calc: temped
  a,             \* calc: index of the island of STEP 5
  totfaces,      \* calc: total faces added
  scdata,        \* scanfill: the sorted ScanFillVertLink array
  bhit,          \* scanfill: the element bsearch returns for each key
  sc,            \* scanfill: index of the current scan vertex (a + 1)
  verts,         \* scanfill: verts
  maxface,       \* scanfill: maxface
  totface,       \* scanfill: totface
  twoconnected,  \* scanfill: twoconnected
  cut,           \* scanfill: the fill loop was left at the ceiling test
  ret,           \* the values calc returned, one per finished call
  faces0,        \* the face list as it was when the running call began
  islog,         \* one record per finished scanfill() of the running call:
                 \* the island, its verts, maxface and totface, whether the
                 \* fill was cut at the ceiling, whether edges were left open,
                 \* the face list at its return
  abort,         \* why the last call returned early ("" when it did not)
  arena,         \* sf_ctx->arena: "null", "own" (made by begin) or "A"
  memarena,      \* the two MemArenas, each "live" or "freed"
  cycle          \* number of sessions begun on the context

vars == <<vert, edge, fillvertbase, filledgebase, fillfacebase, poly_nr, input,
          flag, pc, ncalls, n, poly, pflist, tempve, temped, a, totfaces, scdata,
          bhit, sc, verts, maxface, totface, twoconnected, cut, ret, faces0,
          islog, abort, arena, memarena, cycle>>

ctxVars == <<vert, edge, fillvertbase, filledgebase, fillfacebase, poly_nr>>
calcVars == <<n, poly, pflist, tempve, temped, a, totfaces>>
fillVars == <<scdata, bhit, sc, verts, maxface, totface, twoconnected, cut>>
sessVars == <<arena, memarena, cycle>>

\* BLI_scanfill_vert_add on a context record c
BLI_scanfill_vert_add(c, vec) ==
  [c EXCEPT
     !.vert = Append(@, [co |-> vec, xy |-> <<0, 0>>, poly_nr |-> c.poly_nr,
                         edge_count |-> 0, f |-> VERT_NEW, tmp |-> 0]),
     !.fillvertbase = BLI_addtail(@, Len(c.vert) + 1)]

\* BLI_scanfill_edge_add on a context record c
BLI_scanfill_edge_add(c, v1, v2) ==
  [c EXCEPT
     !.edge = Append(@, [v1 |-> v1, v2 |-> v2, poly_nr |-> c.poly_nr,
                         f |-> EDGE_NEW]),
     !.filledgebase = BLI_addtail(@, Len(c.edge) + 1)]

\* BLI_scanfill_begin: memset 0, poly_nr unset
BLI_scanfill_begin ==
  [vert |-> <<>>, edge |-> <<>>, fillvertbase |-> <<>>, filledgebase |-> <<>>,
   fillfacebase |-> <<>>, poly_nr |-> POLY_UNSET]

(* ------------------------------------------------------------------ *)
(* unsigned int: two 16-bit digits <<hi, lo>> (2^32 is beyond TLC's    *)
(* integers).  UInt(x) is x modulo 2^32 for -2^31 < x < 2^31.          *)
(* ------------------------------------------------------------------ *)
UInt(x) == <<(x \div UShortMod) % UShortMod, x % UShortMod>>
UIntGe(x, y) == x[1] > y[1] \/ (x[1] = y[1] /\ x[2] >= y[2])
\* unsigned char decrement and increment
DecU8(x) == (x - 1) % UCharMod
IncU8(x) == (x + 1) % UCharMod

(* ------------------------------------------------------------------ *)
(* Geometry                                                            *)
(* ------------------------------------------------------------------ *)
\* a comparator that puts the greater x first within a row
vergscdataDescX(x1, x2) ==
  IF x1.xy[2] < x2.xy[2] THEN 1
  ELSE IF x1.xy[2] > x2.xy[2] THEN -1
  ELSE IF x1.xy[1] < x2.xy[1] THEN 1
  ELSE IF x1.xy[1] > x2.xy[1] THEN -1
  ELSE 0

\* vergscdata: the qsort/bsearch comparator, on two vertex records
vergscdata(x1, x2) ==
  IF x1.xy[2] < x2.xy[2] THEN 1
  ELSE IF x1.xy[2] > x2.xy[2] THEN -1
  ELSE IF x1.xy[1] > x2.xy[1] THEN 1
  ELSE IF x1.xy[1] < x2.xy[1] THEN -1
  ELSE 0

\* a side test that takes only points strictly to the right of the side: the
\* ear search then misses a vertex that lies on a side of the triangle
testedgesideStrict(v1, v2, v3) ==
  (v2[1] - v1[1]) * (v1[2] - v3[2]) + (v1[2] - v2[2]) * (v1[1] - v3[1]) > 0

\* is v3 to the right of v1-v2 ? With exception: v3 == v1 || v3 == v2
testedgeside(v1, v2, v3) ==
  LET inp == (v2[1] - v1[1]) * (v1[2] - v3[2]) + (v1[2] - v2[2]) * (v1[1] - v3[1])
  IN IF inp < 0 THEN FALSE
     ELSE IF inp = 0 /\ ((v1[1] = v3[1] /\ v1[2] = v3[2]) \/ (v2[1] = v3[1] /\ v2[2] = v3[2]))
          THEN FALSE
          ELSE TRUE

\* The slope `fac` of addedgetoscanvert for an edge from (x, y) to xy2, as
\* <<h, num, den>> with den > 0 standing for 1.0e10 * h + num / den: a
\* horizontal edge gets the synthetic slope 1.0e10 * dx, any other
\* (x - x2) / (y2 - y).
EdgeFac(x, y, xy2) ==
  LET d == xy2[2] - y IN
  IF d = 0 THEN <<xy2[1] - x, 0, 1>>
  ELSE IF d > 0 THEN <<0, x - xy2[1], d>>
  ELSE <<0, xy2[1] - x, -d>>
\* fac > fac1 (|num / den| stays far below 1.0e10 on the model's coordinates)
FacGt(f, f1) ==
  f[1] > f1[1] \/ (f[1] = f1[1] /\ f[2] * f1[3] > f1[2] * f[3])

\* cos_v2v2v2(p1, p2, p3) > cos_v2v2v2(p1, p2, q3): the cosines of the
\* angles at p2 compared exactly (a zero-length leg normalises to the zero
\* vector and gives cosine 0)
CosNum(p1, p2, p3) == (p2[1] - p1[1]) * (p2[1] - p3[1]) + (p2[2] - p1[2]) * (p2[2] - p3[2])
LenSq(p, q) == (p[1] - q[1]) * (p[1] - q[1]) + (p[2] - q[2]) * (p[2] - q[2])
CosGt(p1, p2, p3, q3) ==
  LET dt == IF LenSq(p2, p1) = 0 \/ LenSq(p2, p3) = 0 THEN 0 ELSE CosNum(p1, p2, p3)
      db == IF LenSq(p2, p1) = 0 \/ LenSq(p2, q3) = 0 THEN 0 ELSE CosNum(p1, p2, q3)
      lt == IF dt = 0 THEN 1 ELSE LenSq(p2, p3)
      lb == IF db = 0 THEN 1 ELSE LenSq(p2, q3)
  IN IF dt >= 0 /\ db < 0 THEN TRUE
     ELSE IF dt < 0 /\ db >= 0 THEN FALSE
     ELSE IF dt >= 0 THEN dt * dt * lb > db * db * lt
     ELSE dt * dt * lb < db * db * lt

\* bounding boxes that never touch: C2 does not hold with it
boundisectNever(pf2, pf1) == FALSE

\* has pf2 been touched (intersected) by pf1 ? with bounding box
boundisect(pf2, pf1) ==
  IF pf1.edges = 0 \/ pf2.edges = 0 THEN FALSE
  ELSE IF pf2.max_xy[1] < pf1.min_xy[1] THEN FALSE
  ELSE IF pf2.max_xy[2] < pf1.min_xy[2] THEN FALSE
  ELSE IF pf2.min_xy[1] > pf1.max_xy[1] THEN FALSE
  ELSE IF pf2.min_xy[2] > pf1.max_xy[2] THEN FALSE
  ELSE TRUE

\* Return true if eve inside the bound-box of eed (on coordinates)
boundinsideEV(e1, e2, p) ==
  LET minx == Min2(e1[1], e2[1])  maxx == Max2(e1[1], e2[1])
      miny == Min2(e1[2], e2[2])  maxy == Max2(e1[2], e2[2])
  IN p[1] >= minx /\ p[1] <= maxx /\ p[2] >= miny /\ p[2] <= maxy

\* compare_v2v2(a, b, SF_EPSILON): on integer coordinates two points are
\* within 0.00003 of each other exactly when they are equal
compare_v2v2(p, q) == p[1] = q[1] /\ p[2] = q[2]
compare_v3v3(p, q) == p[1] = q[1] /\ p[2] = q[2] /\ p[3] = q[3]
\* dist_squared_to_line_v2(l1, l2, p) < SF_EPSILON_SQ: the squared distance
\* is cross^2 / |l2 - l1|^2, which is 0 or at least 1 / |l2 - l1|^2
DistToLineBelowEps(l1, l2, p) ==
  (l2[1] - l1[1]) * (p[2] - l1[2]) - (l2[2] - l1[2]) * (p[1] - l1[1]) = 0

\* add_newell_cross_v3_v3v3
add_newell_cross_v3_v3v3(nn, vp, vc) ==
  <<nn[1] + (vp[2] - vc[2]) * (vp[3] + vc[3]),
    nn[2] + (vp[3] - vc[3]) * (vp[1] + vc[1]),
    nn[3] + (vp[1] - vc[1]) * (vp[2] + vc[2])>>

\* axis_dominant_v3_to_m3_negate followed by mul_v2_m3v3, for a normal along
\* the Z axis (every input of the model lies in the plane z = 0): the basis
\* of the negated normal is (sign, 0, 0), (0, 1, 0)
mul_v2_m3v3(nn, co) ==
  <<(IF -nn[3] < 0 THEN -1 ELSE 1) * co[1], co[2]>>

(* ------------------------------------------------------------------ *)
(* BLI_scanfill_calc_ex: entry, normal, STEP 1                         *)
(* ------------------------------------------------------------------ *)
\* the caller has added all its vertices and edges
Built == Len(vert) >= Len(input.pts) /\ Len(edge) >= Len(input.edges)

\* "first test vertices if they are in edges": every endpoint of an edge
\* of the edge list becomes AVAILABLE
MarkAvailable(vs, es, elist) ==
  [i \in DOMAIN vs |->
     IF \E k \in 1..Len(elist) : es[elist[k]].v1 = i \/ es[elist[k]].v2 = i
     THEN [vs[i] EXCEPT !.f = VERT_AVAILABLE] ELSE vs[i]]

\* Newell's method over the vertex list, skipping doubles of the previous
\* vertex; st = [n, prev]
RECURSIVE NewellFrom(_, _, _, _)
NewellFrom(vs, vlist, i, st) ==
  IF i > Len(vlist) THEN st.n
  ELSE LET co == vs[vlist[i]].co IN
       NewellFrom(vs, vlist, i + 1,
                  IF ~compare_v3v3(st.prev, co)
                  THEN [n |-> add_newell_cross_v3_v3v3(st.n, st.prev, co), prev |-> co]
                  ELSE st)
NewellNormal(vs, vlist) ==
  NewellFrom(vs, vlist, 1, [n |-> <<0, 0, 0>>, prev |-> vs[vlist[Len(vlist)]].co])

\* a normal that is never taken for zero: C5 does not hold with it
IsZeroNormalNever(nn) == FALSE

\* normalize_v3(n) == 0.0f
IsZeroNormal(nn) == nn[1] = 0 /\ nn[2] = 0 /\ nn[3] = 0

\* the return statement of calc: the value goes to the caller
Return(val, why) ==
  /\ pc' = "done"
  /\ ret' = Append(ret, val)
  /\ abort' = why

\* lines 839-889: flag reset, vert_available, the normal
CalcEnter ==
  /\ (pc = "idle" /\ Built) \/ pc = "done"
  /\ ncalls < input.calls
  /\ ncalls' = ncalls + 1
  /\ flag' \in IF ncalls = 0 THEN input.flags ELSE {flag}
  /\ faces0' = fillfacebase
  /\ islog' = <<>>
  /\ LET vs == MarkAvailable(vert, edge, filledgebase)
         vert_available == \E k \in 1..Len(fillvertbase) : vs[fillvertbase[k]].f = VERT_AVAILABLE
         nn == IF vert_available THEN NewellNormal(vs, fillvertbase) ELSE <<0, 0, 0>>
     IN /\ vert' = vs
        /\ n' = nn
        /\ IF ~vert_available THEN Return(0, "no_vert")
           ELSE IF IsZeroNormal(nn) THEN Return(0, "normal")
           ELSE pc' = "count_polys" /\ ret' = ret /\ abort' = ""
  /\ poly' = 0
  /\ totfaces' = 0
  /\ UNCHANGED <<edge, fillvertbase, filledgebase, fillfacebase, poly_nr, input,
                 pflist, tempve, temped, a>>
  /\ UNCHANGED fillVars
  /\ UNCHANGED sessVars

\* the body of the edge loop of lines 906-931 for the edge order[i];
\* st = [vert, edge, ok]
FloodEdge(st, order, p, i) ==
  LET e == order[i]
      v1 == st.edge[e].v1
      v2 == st.edge[e].v2
  IN IF st.vert[v1].poly_nr = POLY_UNSET /\ st.vert[v2].poly_nr = p
     THEN [vert |-> [st.vert EXCEPT ![v1].poly_nr = p],
           edge |-> [st.edge EXCEPT ![e].poly_nr = p], ok |-> TRUE]
     ELSE IF st.vert[v2].poly_nr = POLY_UNSET /\ st.vert[v1].poly_nr = p
     THEN [vert |-> [st.vert EXCEPT ![v2].poly_nr = p],
           edge |-> [st.edge EXCEPT ![e].poly_nr = p], ok |-> TRUE]
     ELSE IF st.edge[e].poly_nr = POLY_UNSET
             /\ st.vert[v1].poly_nr = p /\ st.vert[v2].poly_nr = p
     THEN [st EXCEPT !.edge[e].poly_nr = p, !.ok = TRUE]
     ELSE st

\* one scan of the edge list in `order`
FloodScan(st, order, i, p) ==
  LET Op(s, k) == FloodEdge(s, order, p, k) IN Fold(Op, st, i, Len(order))

\* a single forward scan instead of scans until nothing changes: C15 does
\* not hold with it
FloodOnce(st, elist, toggle, p) == FloodScan([st EXCEPT !.ok = FALSE], elist, 1, p)

\* while (ok): scans toggled forward / backward
RECURSIVE FloodWhile(_, _, _, _)
FloodWhile(st, elist, toggle, p) ==
  LET t == toggle + 1
      r == FloodScan([st EXCEPT !.ok = FALSE],
                     IF t % 2 = 1 THEN elist ELSE Reverse(elist), 1, p)
  IN IF r.ok THEN FloodWhile(r, elist, t, p) ELSE r

\* the loop over the vertex list of lines 898-937; st = [vert, edge, poly]
RECURSIVE FloodVerts(_, _, _, _)
FloodVerts(st, vlist, elist, i) ==
  IF i > Len(vlist) THEN st
  ELSE LET eve == vlist[i] IN
       IF st.vert[eve].poly_nr = POLY_UNSET
       THEN LET r == FloodWhile([vert |-> [st.vert EXCEPT ![eve].poly_nr = st.poly],
                                 edge |-> st.edge, ok |-> TRUE], elist, 0, st.poly)
            IN FloodVerts([vert |-> r.vert, edge |-> r.edge,
                           poly |-> (st.poly + 1) % UShortMod], vlist, elist, i + 1)
       ELSE FloodVerts(st, vlist, elist, i + 1)

\* mul_v2_m3v3(eve->xy, mat_2d, eve->co) for every vertex of the list
Project(vs, vlist, nn) ==
  [i \in DOMAIN vs |->
     IF i \in Range(vlist) THEN [vs[i] EXCEPT !.xy = mul_v2_m3v3(nn, vs[i].co)] ELSE vs[i]]

\* a count that ignores the context's polygon id: C16 does not hold with it
PolyOnEntryZero(nr) == 0

\* lines 892-895: the polygon count calc starts from
PolyOnEntry(nr) == IF nr # POLY_UNSET THEN (nr + 1) % UShortMod ELSE 0

\* STEP 1: COUNT POLYS (lines 891-957)
CountPolys ==
  /\ pc = "count_polys"
  /\ LET poly0 == PolyOnEntry(poly_nr)
         vs == Project(vert, fillvertbase, n)
     IN IF "POLYS" \in flag /\ poly0 = 0
        THEN LET r == FloodVerts([vert |-> vs, edge |-> edge, poly |-> 0],
                                 fillvertbase, filledgebase, 1)
             IN vert' = r.vert /\ edge' = r.edge /\ poly' = r.poly
        ELSE IF poly0 # 0
        THEN vert' = vs /\ edge' = edge /\ poly' = poly0
        ELSE /\ poly' = 1
             /\ vert' = [i \in DOMAIN vs |->
                           IF i \in Range(fillvertbase)
                           THEN [vs[i] EXCEPT !.poly_nr = 0] ELSE vs[i]]
             /\ edge' = [e \in DOMAIN edge |->
                           IF e \in Range(filledgebase)
                           THEN [edge[e] EXCEPT !.poly_nr = 0] ELSE edge[e]]
  /\ poly_nr' = POLY_UNSET
  /\ pc' = "loose"
  /\ UNCHANGED <<fillvertbase, filledgebase, fillfacebase, input, flag, ncalls, n,
                 pflist, tempve, temped, a, totfaces, ret, faces0, islog, abort>>
  /\ UNCHANGED fillVars
  /\ UNCHANGED sessVars

(* ------------------------------------------------------------------ *)
(* STEP 2: remove loose edges and strings of edges                     *)
(* ------------------------------------------------------------------ *)
\* the test of one endpoint in line 963: edge_count++ > 250
DegreeOver(count) == count > MaxEdgeCount

\* the test of lines 963-969 for the edge elist[i]; st = [vert, over], and
\* over is set where the source returns
DegreeEdge(st, es, elist, i) ==
  IF st.over THEN st
  ELSE LET v1 == es[elist[i]].v1
           v2 == es[elist[i]].v2
           c1 == st.vert[v1].edge_count
           vs1 == [st.vert EXCEPT ![v1].edge_count = IncU8(c1)]
           c2 == vs1[v2].edge_count
           vs2 == [vs1 EXCEPT ![v2].edge_count = IncU8(c2)]
       IN IF DegreeOver(c1) THEN [vert |-> vs1, over |-> TRUE]
          ELSE IF DegreeOver(c2) THEN [vert |-> vs2, over |-> TRUE]
          ELSE [vert |-> vs2, over |-> FALSE]

\* lines 962-970
DegreeCount(st, es, elist, i) ==
  LET Op(s, k) == DegreeEdge(s, es, elist, k) IN Fold(Op, st, i, Len(elist))

\* lines 1007-1010: "skip checks for loose edges"
CountEdge(vs, es, elist, i) ==
  LET v1 == es[elist[i]].v1
      v2 == es[elist[i]].v2
      vs1 == [vs EXCEPT ![v1].edge_count = IncU8(@)]
  IN [vs1 EXCEPT ![v2].edge_count = IncU8(@)]
CountEdges(vs, es, elist, i) ==
  LET Op(s, k) == CountEdge(s, es, elist, k) IN Fold(Op, vs, i, Len(elist))

\* first edge of the list with eve as an endpoint, 0 when there is none
FirstEdgeOf(es, elist, eve, i) ==
  LET Op(found, k) ==
        IF found # 0 THEN found
        ELSE IF es[elist[k]].v1 = eve \/ es[elist[k]].v2 = eve THEN elist[k] ELSE 0
  IN Fold(Op, 0, i, Len(elist))

\* the body of the inner LISTBASE_FOREACH of testvertexnearedge (lines
\* 393-422) for the vertex eve whose only edge is ed1 and the edge
\* elist[j]; st = [vert, edge, filledgebase, crash, hit], and hit is set
\* where the source breaks out of the loop
NearEdge(st, eve, ed1, elist, j) ==
  IF st.hit THEN st
  ELSE LET e == elist[j]
           eed == st.edge[e]
           p == st.vert[eve].xy
       IN IF eve # eed.v1 /\ eve # eed.v2 /\ st.vert[eve].poly_nr = eed.poly_nr
          THEN IF compare_v2v2(p, st.vert[eed.v1].xy)
               THEN [st EXCEPT !.edge[ed1].v2 = eed.v1,
                               !.vert = [[@ EXCEPT ![eed.v1].edge_count = IncU8(@)]
                                            EXCEPT ![eve].edge_count = 0],
                               !.hit = TRUE]
               ELSE IF compare_v2v2(p, st.vert[eed.v2].xy)
               THEN [st EXCEPT !.edge[ed1].v2 = eed.v2,
                               !.vert = [[@ EXCEPT ![eed.v2].edge_count = IncU8(@)]
                                            EXCEPT ![eve].edge_count = 0],
                               !.hit = TRUE]
               ELSE IF boundinsideEV(st.vert[eed.v1].xy, st.vert[eed.v2].xy, p)
                       /\ DistToLineBelowEps(st.vert[eed.v1].xy, st.vert[eed.v2].xy, p)
               THEN [st EXCEPT
                       !.edge = Append([@ EXCEPT ![e].v1 = eve],
                                       [v1 |-> eed.v1, v2 |-> eve,
                                        poly_nr |-> eed.poly_nr, f |-> EDGE_NEW]),
                       !.filledgebase = BLI_addtail(@, Len(st.edge) + 1),
                       !.vert[eve].edge_count = 3,
                       !.hit = TRUE]
               ELSE st
          ELSE st

\* the inner LISTBASE_FOREACH of testvertexnearedge;
\* st = [vert, edge, filledgebase, crash]
NearEdgeScan(st, eve, ed1, j) ==
  LET Op(s, k) == NearEdge(s, eve, ed1, st.filledgebase, k)
      r == Fold(Op, [vert |-> st.vert, edge |-> st.edge,
                     filledgebase |-> st.filledgebase, crash |-> st.crash,
                     hit |-> FALSE], j, Len(st.filledgebase))
  IN [vert |-> r.vert, edge |-> r.edge, filledgebase |-> r.filledgebase,
      crash |-> r.crash]

\* testvertexnearedge (lines 373-425); a vertex with edge_count 1 and no
\* edge makes the search for ed1 run off the end of the list
RECURSIVE testvertexnearedge(_, _, _)
testvertexnearedge(st, vlist, i) ==
  IF i > Len(vlist) \/ st.crash THEN st
  ELSE LET eve == vlist[i] IN
       IF st.vert[eve].edge_count = 1
       THEN LET ed1 == FirstEdgeOf(st.edge, st.filledgebase, eve, 1) IN
            IF ed1 = 0 THEN [st EXCEPT !.crash = TRUE]
            ELSE LET s1 == IF st.edge[ed1].v1 = eve
                           THEN [st EXCEPT !.edge[ed1].v1 = st.edge[ed1].v2,
                                           !.edge[ed1].v2 = eve]
                           ELSE st
                 IN testvertexnearedge(NearEdgeScan(s1, eve, ed1, 1), vlist, i + 1)
       ELSE testvertexnearedge(st, vlist, i + 1)

\* one pass of the pruning loop over `order` (lines 984-998);
\* st = [vert, fillvertbase, filledgebase, ok]
PruneEdge(st, es, order, i) ==
  LET e == order[i]
      v1 == es[e].v1
      v2 == es[e].v2
  IN IF st.vert[v1].edge_count = 1
     THEN [vert |-> [st.vert EXCEPT ![v2].edge_count = DecU8(@)],
           fillvertbase |-> BLI_remlink(st.fillvertbase, v1),
           filledgebase |-> BLI_remlink(st.filledgebase, e), ok |-> TRUE]
     ELSE IF st.vert[v2].edge_count = 1
     THEN [vert |-> [st.vert EXCEPT ![v1].edge_count = DecU8(@)],
           fillvertbase |-> BLI_remlink(st.fillvertbase, v2),
           filledgebase |-> BLI_remlink(st.filledgebase, e), ok |-> TRUE]
     ELSE st
PrunePass(st, es, order, i) ==
  LET Op(s, k) == PruneEdge(s, es, order, k) IN Fold(Op, st, i, Len(order))

\* a pruning that stops after its first pass
PruneOnce(st, es, toggle) ==
  PrunePass([st EXCEPT !.ok = FALSE], es, st.filledgebase, 1)

RECURSIVE PruneWhile(_, _, _)
PruneWhile(st, es, toggle) ==
  LET t == toggle + 1
      r == PrunePass([st EXCEPT !.ok = FALSE], es,
                     IF t % 2 = 1 THEN st.filledgebase ELSE Reverse(st.filledgebase), 1)
  IN IF r.ok THEN PruneWhile(r, es, t) ELSE r

\* an out-of-bounds access or a null dereference: the call may crash or
\* return anything; the model lets it return any small value
Undefined(why) ==
  /\ pc' = "done"
  /\ \E val \in 0..MaxUbRet : ret' = Append(ret, val)
  /\ abort' = why

\* STEP 2 (lines 959-1018)
RemoveLoose ==
  /\ pc = "loose"
  /\ IF "LOOSE" \in flag
     THEN LET d == DegreeCount([vert |-> vert, over |-> FALSE], edge, filledgebase, 1) IN
          IF d.over
          THEN /\ vert' = d.vert
               /\ Return(0, "degree")
               /\ UNCHANGED <<edge, fillvertbase, filledgebase>>
          ELSE LET t == testvertexnearedge([vert |-> d.vert, edge |-> edge,
                                            filledgebase |-> filledgebase,
                                            crash |-> FALSE], fillvertbase, 1)
                   r == PruneWhile([vert |-> t.vert, fillvertbase |-> fillvertbase,
                                    filledgebase |-> t.filledgebase, ok |-> TRUE],
                                   t.edge, 0)
               IN IF t.crash
                  THEN /\ vert' = t.vert /\ edge' = t.edge
                       /\ filledgebase' = t.filledgebase
                       /\ Undefined("crash_nearedge")
                       /\ UNCHANGED fillvertbase
                  ELSE /\ vert' = r.vert /\ edge' = t.edge
                       /\ fillvertbase' = r.fillvertbase
                       /\ filledgebase' = r.filledgebase
                       /\ IF r.filledgebase = <<>>
                          THEN Return(0, "all_loose")
                          ELSE pc' = "polyfill" /\ UNCHANGED <<ret, abort>>
     ELSE /\ vert' = CountEdges(vert, edge, filledgebase, 1)
          /\ pc' = "polyfill"
          /\ UNCHANGED <<edge, fillvertbase, filledgebase, ret, abort>>
  /\ UNCHANGED <<fillfacebase, poly_nr, input, flag, ncalls, faces0, islog>>
  /\ UNCHANGED calcVars
  /\ UNCHANGED fillVars
  /\ UNCHANGED sessVars

(* ------------------------------------------------------------------ *)
(* STEP 3: the PolyFill array, STEP 4: join polygons                   *)
(* ------------------------------------------------------------------ *)
\* lines 1033-1040
NewPolyFill(nr) ==
  [edges |-> 0, verts |-> 0, min_xy |-> <<BoundInit, BoundInit>>,
   max_xy |-> <<-BoundInit, -BoundInit>>, f |-> POLY_NEW, nr |-> nr]

\* lines 1041-1043
PolyEdges(pfl, es, elist, i) ==
  LET Op(s, k) == [s EXCEPT ![es[elist[k]].poly_nr + 1].edges = @ + 1]
  IN Fold(Op, pfl, i, Len(elist))

\* lines 1045-1057
RECURSIVE PolyVerts(_, _, _, _)
PolyVerts(pfl, vs, vlist, i) ==
  IF i > Len(vlist) THEN pfl
  ELSE LET eve == vs[vlist[i]]
           k == eve.poly_nr + 1
       IN PolyVerts(
            [pfl EXCEPT
               ![k].verts = @ + 1,
               ![k].min_xy = <<Min2(@[1], eve.xy[1]), Min2(@[2], eve.xy[2])>>,
               ![k].max_xy = <<Max2(@[1], eve.xy[1]), Max2(@[2], eve.xy[2])>>,
               ![k].f = IF eve.edge_count > 2 THEN POLY_VALID ELSE @],
            vs, vlist, i + 1)

\* STEP 3 (lines 1030-1057).  pflist has `poly` elements: a vertex or an
\* edge of the lists whose poly_nr is not below `poly` is written outside it.
MakePolyFill ==
  /\ pc = "polyfill"
  /\ IF (\E k \in 1..Len(filledgebase) : edge[filledgebase[k]].poly_nr >= poly)
        \/ (\E k \in 1..Len(fillvertbase) : vert[fillvertbase[k]].poly_nr >= poly)
     THEN Undefined("pflist_overrun") /\ UNCHANGED pflist
     ELSE /\ pflist' = PolyVerts(PolyEdges([k \in 1..poly |-> NewPolyFill(k - 1)],
                                           edge, filledgebase, 1),
                                 vert, fillvertbase, 1)
          /\ pc' = "join"
          /\ UNCHANGED <<ret, abort>>
  /\ UNCHANGED ctxVars
  /\ UNCHANGED <<input, flag, ncalls, n, poly, tempve, temped, a, totfaces, faces0, islog>>
  /\ UNCHANGED fillVars
  /\ UNCHANGED sessVars

\* a search that marks the islands touching pf_test and does not go on
\* from them
RECURSIVE fill_target_map_flat(_, _, _, _, _)
fill_target_map_flat(pf_list, pf_target, pf_test, pf_b_index, target_map) ==
  IF pf_b_index >= Len(pf_list) THEN target_map
  ELSE fill_target_map_flat(
         pf_list, pf_target, pf_test, pf_b_index + 1,
         IF target_map[pf_b_index + 1] = pf_b_index
            /\ boundisect(pf_list[pf_test + 1], pf_list[pf_b_index + 1])
         THEN [target_map EXCEPT ![pf_b_index + 1] = pf_target] ELSE target_map)

\* fill_target_map_recursive; pf_b_index is the loop variable, which the
\* source starts at pf_target + 1.  Indices are those of the source (from 0).
RECURSIVE fill_target_map_recursive(_, _, _, _, _)
fill_target_map_recursive(pf_list, pf_target, pf_test, pf_b_index, target_map) ==
  IF pf_b_index >= Len(pf_list) THEN target_map
  ELSE IF target_map[pf_b_index + 1] # pf_b_index
  THEN fill_target_map_recursive(pf_list, pf_target, pf_test, pf_b_index + 1, target_map)
  ELSE IF boundisect(pf_list[pf_test + 1], pf_list[pf_b_index + 1])
  THEN fill_target_map_recursive(
         pf_list, pf_target, pf_test, pf_b_index + 1,
         fill_target_map_recursive(pf_list, pf_target, pf_b_index, pf_target + 1,
                                   [target_map EXCEPT ![pf_b_index + 1] = pf_target]))
  ELSE fill_target_map_recursive(pf_list, pf_target, pf_test, pf_b_index + 1, target_map)

\* lines 1076-1081
RECURSIVE FillTargetMap(_, _, _)
FillTargetMap(pf_list, k, target_map) ==
  IF k >= Len(pf_list) THEN target_map
  ELSE IF target_map[k + 1] # k THEN FillTargetMap(pf_list, k + 1, target_map)
  ELSE FillTargetMap(pf_list, k + 1,
                     fill_target_map_recursive(pf_list, k, k, k + 1, target_map))

\* a merge that adds the counts of pf2 to pf1 and leaves pf2 as it was
mergepolysNoClear(st, vlist, elist, i1, i2) ==
  [st EXCEPT !.pflist[i1 + 1].verts = @ + st.pflist[i2 + 1].verts,
             !.pflist[i1 + 1].edges = @ + st.pflist[i2 + 1].edges]

\* a merge that renumbers the vertices of pf2 and leaves its edges alone
mergepolysVertsOnly(st, vlist, elist, i1, i2) ==
  [st EXCEPT !.vert = [v \in DOMAIN st.vert |->
                         IF v \in Range(vlist) /\ st.vert[v].poly_nr = st.pflist[i2 + 1].nr
                         THEN [st.vert[v] EXCEPT !.poly_nr = st.pflist[i1 + 1].nr]
                         ELSE st.vert[v]]]

\* mergepolysSimp: add pf2 to pf1; st = [vert, edge, pflist], the lists are
\* the context's, i1 and i2 the indices of pf1 and pf2
mergepolysSimp(st, vlist, elist, i1, i2) ==
  LET pf1 == st.pflist[i1 + 1]
      pf2 == st.pflist[i2 + 1]
  IN [vert |-> [v \in DOMAIN st.vert |->
                  IF v \in Range(vlist) /\ st.vert[v].poly_nr = pf2.nr
                  THEN [st.vert[v] EXCEPT !.poly_nr = pf1.nr] ELSE st.vert[v]],
      edge |-> [e \in DOMAIN st.edge |->
                  IF e \in Range(elist) /\ st.edge[e].poly_nr = pf2.nr
                  THEN [st.edge[e] EXCEPT !.poly_nr = pf1.nr] ELSE st.edge[e]],
      pflist |-> [st.pflist EXCEPT
                    ![i1 + 1] = [pf1 EXCEPT
                       !.verts = pf1.verts + pf2.verts,
                       !.edges = pf1.edges + pf2.edges,
                       !.max_xy = <<Max2(pf1.max_xy[1], pf2.max_xy[1]),
                                    Max2(pf1.max_xy[2], pf2.max_xy[2])>>,
                       !.min_xy = <<Min2(pf1.min_xy[1], pf2.min_xy[1]),
                                    Min2(pf1.min_xy[2], pf2.min_xy[2])>>,
                       !.f = IF pf1.f = POLY_VALID \/ pf2.f = POLY_VALID
                             THEN POLY_VALID ELSE POLY_NEW],
                    ![i2 + 1] = [pf2 EXCEPT !.verts = 0, !.edges = 0]]]

\* lines 1084-1090
RECURSIVE JoinLoop(_, _, _, _, _)
JoinLoop(st, vlist, elist, target_map, k) ==
  IF k >= Len(st.pflist) THEN st
  ELSE IF target_map[k + 1] # k
  THEN JoinLoop(mergepolysSimp(st, vlist, elist, target_map[k + 1], k),
                vlist, elist, target_map, k + 1)
  ELSE JoinLoop(st, vlist, elist, target_map, k + 1)

TargetMap(pfl) == FillTargetMap(pfl, 0, [k \in 1..Len(pfl) |-> k - 1])

\* STEP 4 (lines 1063-1093) and the head of STEP 5 (lines 1106-1113)
JoinPolys ==
  /\ pc = "join"
  /\ IF "HOLES" \in flag /\ poly > 1
     THEN LET r == JoinLoop([vert |-> vert, edge |-> edge, pflist |-> pflist],
                            fillvertbase, filledgebase, TargetMap(pflist), 0)
          IN vert' = r.vert /\ edge' = r.edge /\ pflist' = r.pflist
     ELSE UNCHANGED <<vert, edge, pflist>>
  /\ tempve' = fillvertbase
  /\ temped' = filledgebase
  /\ fillvertbase' = <<>>
  /\ filledgebase' = <<>>
  /\ a' = 0
  /\ pc' = "island"
  /\ UNCHANGED <<fillfacebase, poly_nr, input, flag, ncalls, n, poly, totfaces, ret,
                 faces0, islog, abort>>
  /\ UNCHANGED fillVars
  /\ UNCHANGED sessVars

(* ------------------------------------------------------------------ *)
(* scanfill(): STEP 0 and STEP 1                                       *)
(* ------------------------------------------------------------------ *)
\* splitlist (lines 427-446): everything goes to the temp lists, the
\* elements of polygon nr come back; r = [fillvertbase, filledgebase,
\* tempve, temped]
splitlist(vs, es, vbase, ebase, tve, ted, nr) ==
  LET allv == tve \o vbase
      alle == ted \o ebase
  IN [fillvertbase |-> SelectSeq(allv, LAMBDA v : vs[v].poly_nr = nr),
      tempve |-> SelectSeq(allv, LAMBDA v : vs[v].poly_nr # nr),
      filledgebase |-> SelectSeq(alle, LAMBDA e : es[e].poly_nr = nr),
      temped |-> SelectSeq(alle, LAMBDA e : es[e].poly_nr # nr)]

\* STEP 0: remove zero sized edges (lines 470-490), on the vertex arena
ZeroLenEdge(vs, es, elist, i) ==
  LET v1 == es[elist[i]].v1
      v2 == es[elist[i]].v2
  IN IF vs[v1].xy = vs[v2].xy
     THEN IF vs[v1].f = VERT_ZERO_LEN /\ vs[v2].f # VERT_ZERO_LEN
          THEN [vs EXCEPT ![v2].f = VERT_ZERO_LEN, ![v2].tmp = vs[v1].tmp]
          ELSE IF vs[v2].f = VERT_ZERO_LEN /\ vs[v1].f # VERT_ZERO_LEN
          THEN [vs EXCEPT ![v1].f = VERT_ZERO_LEN, ![v1].tmp = vs[v2].tmp]
          ELSE IF vs[v2].f = VERT_ZERO_LEN /\ vs[v1].f = VERT_ZERO_LEN
          THEN [vs EXCEPT ![v1].tmp = vs[v2].tmp]
          ELSE [vs EXCEPT ![v2].f = VERT_ZERO_LEN, ![v2].tmp = v1]
     ELSE vs
ZeroLenMark(vs, es, elist, i) ==
  LET Op(s, k) == ZeroLenEdge(s, es, elist, k) IN Fold(Op, vs, i, Len(elist))

\* the while loops of lines 531-535 and 539-543: follow tmp.v from v while
\* the vertex is ZERO_LEN, its tmp.v is not the start and not itself.
\* Result: the vertex reached; 0 when a null tmp.v is dereferenced; -1 when
\* the walk comes back to a vertex it has left (the loop never ends).
RECURSIVE RepointWalk(_, _, _, _)
RepointWalk(vs, start, cur, seen) ==
  IF vs[cur].f = VERT_ZERO_LEN /\ vs[cur].tmp # start /\ cur # vs[cur].tmp
  THEN IF vs[cur].tmp = 0 THEN 0
       ELSE IF vs[cur].tmp \in seen THEN -1
       ELSE RepointWalk(vs, start, vs[cur].tmp, seen \cup {cur})
  ELSE cur
Repoint(vs, v) == IF vs[v].f = VERT_ZERO_LEN THEN RepointWalk(vs, v, v, {}) ELSE v

\* the orders qsort may leave the scan links in: sorted by vergscdata,
\* links that compare equal in any order
RECURSIVE SortedOrders(_, _)
SortedOrders(vs, ids) ==
  IF ids = {} THEN {<<>>}
  ELSE LET firsts == {x \in ids : \A y \in ids : vergscdata(vs[x], vs[y]) <= 0}
       IN UNION {{<<x>> \o rest : rest \in SortedOrders(vs, ids \ {x})} : x \in firsts}

\* the elements bsearch may return: for every run of links that compare
\* equal, one of them (the same one for the whole fill: the array does not
\* change).  order is a sorted sequence of vertices; the result is a set of
\* sets of indices.
RECURSIVE BsearchHits(_, _, _)
BsearchHits(vs, order, i) ==
  IF i > Len(order) THEN {{}}
  ELSE LET last == CHOOSE j \in i..Len(order) :
                     /\ \A k \in i..j : vergscdata(vs[order[k]], vs[order[i]]) = 0
                     /\ (j = Len(order) \/ vergscdata(vs[order[j + 1]], vs[order[i]]) # 0)
       IN {hits \cup {k} : hits \in BsearchHits(vs, order, last + 1), k \in i..last}

\* bsearch(&scsearch, scdata, len, ..., vergscdata): index of the link
\* found, 0 for NULL
bsearch(vs, scd, hits, key) ==
  LET found == {k \in hits : vergscdata(vs[key], vs[scd[k].vert]) = 0}
  IN IF found = {} THEN 0 ELSE CHOOSE k \in found : TRUE

\* position before which addedgetoscanvert inserts: the first edge whose
\* slope is greater; 0 for "add at the tail"; -1 when an edge to the same
\* v2 is met first (the edge already exists)
RECURSIVE ScanVertPos(_, _, _, _, _)
ScanVertPos(vs, es, edges, eed, k) ==
  IF k > Len(edges) THEN 0
  ELSE LET x == vs[es[eed].v1].xy[1]
           y == vs[es[eed].v1].xy[2]
       IN IF es[edges[k]].v2 = es[eed].v2 THEN -1
          ELSE IF FacGt(EdgeFac(x, y, vs[es[edges[k]].v2].xy),
                        EdgeFac(x, y, vs[es[eed].v2].xy)) THEN k
          ELSE ScanVertPos(vs, es, edges, eed, k + 1)

\* addedgetoscanvert: the edge list of the link with eed inserted, or
\* "exists" when an edge to the same v2 is in it; r = [ok, edges]
addedgetoscanvert(vs, es, edges, eed) ==
  IF edges = <<>> THEN [ok |-> TRUE, edges |-> <<eed>>]
  ELSE LET pos == ScanVertPos(vs, es, edges, eed, 1) IN
       IF pos = -1 THEN [ok |-> FALSE, edges |-> edges]
       ELSE IF pos = 0 THEN [ok |-> TRUE, edges |-> BLI_addtail(edges, eed)]
       ELSE [ok |-> TRUE, edges |-> InsertBefore(edges, pos, eed)]

\* edges left as the caller gave them: C10 does not hold with it
TopFirstKeep(vs, ed) == ed

\* "which vert is left-top?": the edge with its endpoints swapped if needed
TopFirst(vs, ed) ==
  IF vs[ed.v1].xy[2] = vs[ed.v2].xy[2]
  THEN IF vs[ed.v1].xy[1] > vs[ed.v2].xy[1]
       THEN [ed EXCEPT !.v1 = ed.v2, !.v2 = ed.v1] ELSE ed
  ELSE IF vs[ed.v1].xy[2] < vs[ed.v2].xy[2]
       THEN [ed EXCEPT !.v1 = ed.v2, !.v2 = ed.v1] ELSE ed

\* addedgetoscanlist; st = [edge, scdata, dup]: dup is the index of the
\* link in which the edge already exists, 0 for the NULL result
addedgetoscanlist(vs, st, hits, eed) ==
  LET es == [st.edge EXCEPT ![eed] = TopFirst(vs, @)]
      k == bsearch(vs, st.scdata, hits, es[eed].v1)
  IN IF k = 0 THEN [edge |-> es, scdata |-> st.scdata, dup |-> 0]
     ELSE LET r == addedgetoscanvert(vs, es, st.scdata[k].edges, eed) IN
          IF r.ok
          THEN [edge |-> es, scdata |-> [st.scdata EXCEPT ![k].edges = r.edges], dup |-> 0]
          ELSE [edge |-> es, scdata |-> st.scdata, dup |-> k]

\* lines 517-557: every edge leaves the edge list, is re-pointed through the
\* zero-length chains when doubles are removed and, unless its ends are the
\* same vertex, goes into the scan list; st = [edge, scdata, dup, bad]
InsertEdge(vs, st, hits, elist, doubles, i) ==
  IF st.bad # "" THEN st
  ELSE LET e == elist[i]
           p1 == IF doubles THEN Repoint(vs, st.edge[e].v1) ELSE st.edge[e].v1
           p2 == IF doubles THEN Repoint(vs, st.edge[e].v2) ELSE st.edge[e].v2
       IN IF p1 = -1 \/ (p1 > 0 /\ p2 = -1) THEN [st EXCEPT !.bad = "hang"]
          ELSE IF p1 = 0 \/ p2 = 0 THEN [st EXCEPT !.bad = "crash"]
          ELSE LET s1 == [st EXCEPT !.edge[e].v1 = p1, !.edge[e].v2 = p2] IN
               IF p1 # p2
               THEN LET r == addedgetoscanlist(vs, s1, hits, e) IN
                    [edge |-> r.edge, scdata |-> r.scdata, dup |-> 0, bad |-> ""]
               ELSE s1
InsertEdges(vs, st, hits, elist, doubles, i) ==
  LET Op(s, k) == InsertEdge(vs, s, hits, elist, doubles, k) IN Fold(Op, st, i, Len(elist))

\* eve->f = SF_VERT_NEW for every vertex that gets a scan link (line 501)
RECURSIVE FlagNew(_, _, _)
FlagNew(vs, vlist, i) ==
  IF i > Len(vlist) THEN vs
  ELSE FlagNew([vs EXCEPT ![vlist[i]].f = VERT_NEW], vlist, i + 1)

\* a ceiling one triangle short of maxface: C1 does not hold with it
MaxFaceShort(holes, nverts) == IF holes THEN UInt(2 * nverts) ELSE UInt(nverts - 3)

\* maxface (lines 575-583), an unsigned int
MaxFace(holes, nverts) == IF holes THEN UInt(2 * nverts) ELSE UInt(nverts - 2)

\* the for loop of STEP 5 (lines 1114-1120) up to the FILL LOOP of scanfill
\* (lines 448-585): an island with more than one edge is split off and its
\* scan list built, any other island is passed over
NextIsland ==
  /\ pc = "island"
  /\ a < poly
  /\ IF pflist[a + 1].edges > 1
     THEN LET nr == pflist[a + 1].nr
              sp == splitlist(vert, edge, fillvertbase, filledgebase, tempve, temped, nr)
              vs0 == IF "REMOVE_DOUBLES" \in flag
                     THEN ZeroLenMark(vert, edge, sp.filledgebase, 1) ELSE vert
              inlist == SelectSeq(sp.fillvertbase,
                                  LAMBDA v : vs0[v].poly_nr = nr /\ vs0[v].f # VERT_ZERO_LEN)
              vs1 == FlagNew(vs0, inlist, 1)
          IN \E order \in SortedOrders(vs1, Range(inlist)) :
             \E hits \in BsearchHits(vs1, order, 1) :
               LET r == InsertEdges(vs1,
                                    [edge |-> edge,
                                     scdata |-> [k \in 1..Len(order) |->
                                                   [vert |-> order[k], edges |-> <<>>]],
                                     dup |-> 0, bad |-> ""],
                                    hits, sp.filledgebase, "REMOVE_DOUBLES" \in flag, 1)
               IN /\ IF r.bad = "crash" THEN Undefined("crash_doubles")
                     ELSE /\ pc' = IF r.bad = "hang" THEN "hang" ELSE "scan"
                          /\ UNCHANGED <<ret, abort>>
                  /\ vert' = vs1
                  /\ edge' = r.edge
                  /\ scdata' = r.scdata
                  /\ bhit' = hits
                  /\ fillvertbase' = sp.fillvertbase
                  /\ filledgebase' = <<>>
                  /\ tempve' = sp.tempve
                  /\ temped' = sp.temped
                  /\ verts' = Len(order)
                  /\ twoconnected' = (pflist[a + 1].f = POLY_NEW)
                  /\ totface' = 0
                  /\ cut' = FALSE
                  /\ maxface' = MaxFace("HOLES" \in flag, Len(order))
                  /\ sc' = 1
                  /\ a' = a
     ELSE /\ a' = a + 1
          /\ UNCHANGED <<vert, edge, fillvertbase, filledgebase, tempve, temped, pc,
                         ret, abort>>
          /\ UNCHANGED fillVars
  /\ UNCHANGED <<fillfacebase, poly_nr, input, flag, ncalls, n, poly, pflist, totfaces,
                 faces0, islog>>
  /\ UNCHANGED sessVars

(* ------------------------------------------------------------------ *)
(* scanfill(): STEP 2, the fill loop                                   *)
(* ------------------------------------------------------------------ *)
\* "Set connect-flags" (lines 590-605) for the edges of one link;
\* st = [vert, edges, closed]: the vertex arena, the edges left in the
\* link, the edges moved to the edge list
RECURSIVE ConnectFlags(_, _, _, _)
ConnectFlags(st, es, snapshot, i) ==
  IF i > Len(snapshot) THEN st
  ELSE LET e == snapshot[i]
           v1 == es[e].v1
           v2 == es[e].v2
       IN ConnectFlags(
            IF st.vert[v1].edge_count = 1 \/ st.vert[v2].edge_count = 1
            THEN LET vsA == IF st.vert[v1].edge_count > 1
                            THEN [st.vert EXCEPT ![v1].edge_count = @ - 1] ELSE st.vert
                     vsB == IF vsA[v2].edge_count > 1
                            THEN [vsA EXCEPT ![v2].edge_count = @ - 1] ELSE vsA
                 IN [vert |-> vsB, edges |-> BLI_remlink(st.edges, e),
                     closed |-> BLI_addtail(st.closed, e)]
            ELSE [st EXCEPT !.vert[v2].f = VERT_AVAILABLE],
            es, snapshot, i + 1)

\* "test for loose edges" (lines 749-761)
RECURSIVE LooseEdges(_, _, _, _)
LooseEdges(st, es, snapshot, i) ==
  IF i > Len(snapshot) THEN st
  ELSE LET e == snapshot[i]
           v1 == es[e].v1
           v2 == es[e].v2
       IN LooseEdges(
            IF st.vert[v1].edge_count < 2 \/ st.vert[v2].edge_count < 2
            THEN LET vsA == IF st.vert[v1].edge_count > 1
                            THEN [st.vert EXCEPT ![v1].edge_count = @ - 1] ELSE st.vert
                     vsB == IF vsA[v2].edge_count > 1
                            THEN [vsA EXCEPT ![v2].edge_count = @ - 1] ELSE vsA
                 IN [vert |-> vsB, edges |-> BLI_remlink(st.edges, e),
                     closed |-> BLI_addtail(st.closed, e)]
            ELSE st,
            es, snapshot, i + 1)

\* the head of the for loop over the scan vertices (lines 586-605)
ScanVert ==
  /\ pc = "scan"
  /\ sc <= verts
  /\ LET r == ConnectFlags([vert |-> vert, edges |-> scdata[sc].edges, closed |-> <<>>],
                           edge, scdata[sc].edges, 1)
     IN /\ vert' = r.vert
        /\ scdata' = [scdata EXCEPT ![sc].edges = r.edges]
        /\ filledgebase' = filledgebase \o r.closed
  /\ pc' = "fill"
  /\ UNCHANGED <<edge, fillvertbase, fillfacebase, poly_nr, input, flag, ncalls, ret,
                 faces0, islog, abort, bhit, sc, verts, maxface, totface,
                 twoconnected, cut>>
  /\ UNCHANGED calcVars
  /\ UNCHANGED sessVars

\* an ear search that never finds a vertex inside the triangle: C11 does not
\* hold with it
EarSearchNone(v1, v2, v3, miny, b, best_sc) == 0

\* "test rest of vertices" (lines 650-685): the link of the best vertex
\* inside the triangle v1 v2 v3, 0 when there is none
RECURSIVE EarSearch(_, _, _, _, _, _)
EarSearch(v1, v2, v3, miny, b, best_sc) ==
  IF b > verts THEN best_sc
  ELSE LET q == vert[scdata[b].vert] IN
       IF q.f = VERT_NEW
       THEN IF q.xy[2] <= miny THEN best_sc
            ELSE IF testedgeside(v1, v2, q.xy) /\ testedgeside(v2, v3, q.xy)
                    /\ testedgeside(v3, v1, q.xy)
                 THEN IF best_sc = 0 THEN EarSearch(v1, v2, v3, miny, b + 1, b)
                      ELSE IF CosGt(v2, v1, q.xy, vert[scdata[best_sc].vert].xy)
                           THEN EarSearch(v1, v2, v3, miny, b + 1, b)
                           ELSE EarSearch(v1, v2, v3, miny, b + 1, best_sc)
                 ELSE EarSearch(v1, v2, v3, miny, b + 1, best_sc)
       ELSE EarSearch(v1, v2, v3, miny, b + 1, best_sc)

\* a face that is counted but not stored: C3 does not hold with it
addfillfaceNone(faces, v1, v2, v3) == faces

\* addfillface
addfillface(faces, v1, v2, v3) == BLI_addtail(faces, <<v1, v2, v3>>)

\* closing ed2 on the HOLES flag of the call instead of on the island's
\* poly flag
CloseEd2Holes(ed2f, twocon) == ed2f = EDGE_NEW /\ "HOLES" \in flag

\* ed2 can be removed when it's a boundary edge (line 710)
CloseEd2(ed2f, twocon) == ed2f = EDGE_NEW /\ twocon

\* closing an edge of the current link after a triangle (lines 704-708 and
\* 711-715); st = [vert, scdata, closed]
CloseEdge(st, es, k, e) ==
  [vert |-> [[[st.vert EXCEPT ![es[e].v2].f = VERT_NEW]
                       EXCEPT ![es[e].v1].edge_count = DecU8(@)]
                       EXCEPT ![es[e].v2].edge_count = DecU8(@)],
   scdata |-> [st.scdata EXCEPT ![k].edges = BLI_remlink(@, e)],
   closed |-> BLI_addtail(st.closed, e)]

\* first edge of `edges` that joins v1 and v3, 0 when there is none
\* (lines 733-743)
RECURSIVE FindEdge(_, _, _, _, _)
FindEdge(es, edges, v1, v3, k) ==
  IF k > Len(edges) THEN 0
  ELSE IF (es[edges[k]].v1 = v1 /\ es[edges[k]].v2 = v3)
          \/ (es[edges[k]].v1 = v3 /\ es[edges[k]].v2 = v1) THEN edges[k]
  ELSE FindEdge(es, edges, v1, v3, k + 1)

\* "new triangle" (lines 700-745); r = [vert, edge, scdata, closed]
NewTriangle(ed1, ed2, v1, v2, v3) ==
  LET s1 == CloseEdge([vert |-> vert, scdata |-> scdata, closed |-> <<>>], edge, sc, ed1)
      s2 == IF CloseEd2(edge[ed2].f, twoconnected) THEN CloseEdge(s1, edge, sc, ed2) ELSE s1
      ed3 == Len(edge) + 1
      es3 == Append(edge, [v1 |-> v1, v2 |-> v3, poly_nr |-> poly_nr, f |-> EDGE_INTERNAL])
      vs3 == [[s2.vert EXCEPT ![v1].edge_count = IncU8(@)]
                       EXCEPT ![v3].edge_count = IncU8(@)]
      r == addedgetoscanlist(vs3, [edge |-> es3, scdata |-> s2.scdata, dup |-> 0], bhit, ed3)
  IN IF r.dup = 0
     THEN [vert |-> vs3, edge |-> r.edge, scdata |-> r.scdata, closed |-> s2.closed]
     ELSE LET vs4 == [[vs3 EXCEPT ![v1].edge_count = DecU8(@)]
                           EXCEPT ![v3].edge_count = DecU8(@)]
              old == FindEdge(r.edge, r.scdata[r.dup].edges, v1, v3, 1)
          IN IF old # 0 /\ twoconnected
             THEN [vert |-> [[vs4 EXCEPT ![r.edge[old].v1].edge_count = DecU8(@)]
                                  EXCEPT ![r.edge[old].v2].edge_count = DecU8(@)],
                   edge |-> r.edge,
                   scdata |-> [r.scdata EXCEPT ![r.dup].edges = BLI_remlink(@, old)],
                   closed |-> BLI_addtail(s2.closed, old)]
             ELSE [vert |-> vs4, edge |-> r.edge, scdata |-> r.scdata, closed |-> s2.closed]

\* "make new edge, and start over" (lines 687-698); r as for NewTriangle
NewDiagonal(ed2, v2, best) ==
  LET ed3 == Len(edge) + 1 IN
  [vert |-> [[[vert EXCEPT ![best].f = VERT_AVAILABLE]
                     EXCEPT ![v2].edge_count = IncU8(@)]
                     EXCEPT ![best].edge_count = IncU8(@)],
   edge |-> Append(edge, [v1 |-> v2, v2 |-> best, poly_nr |-> poly_nr,
                          f |-> EDGE_INTERNAL]),
   scdata |-> [scdata EXCEPT ![sc].edges = InsertBefore(@, IndexOf(@, ed2), ed3)],
   closed |-> <<>>]

\* no ceiling at all: C13 does not hold with it
CeilingNever(tot, maxf) == FALSE

\* a ceiling that lets one more triangle through: C6 does not hold with it
CeilingOver(tot, maxf) == UIntGe(UInt(tot), maxf) /\ UInt(tot) # maxf

\* the ceiling test of line 617
CeilingHit(tot, maxf) == UIntGe(UInt(tot), maxf)

\* one turn of "while (sc->edge_first)" (lines 606-763), or, when the link
\* has no edge left, the step to the next scan vertex (line 765)
FillStep ==
  /\ pc = "fill"
  /\ IF scdata[sc].edges = <<>>
     THEN /\ sc' = sc + 1
          /\ pc' = "scan"
          /\ UNCHANGED <<vert, edge, scdata, filledgebase, fillfacebase, totface, cut>>
     ELSE LET ed1 == scdata[sc].edges[1]
              ed2 == IF Len(scdata[sc].edges) > 1 THEN scdata[sc].edges[2] ELSE 0
          IN IF CeilingHit(totface, maxface)
             THEN /\ sc' = verts + 1
                  /\ pc' = "scan"
                  /\ cut' = TRUE
                  /\ UNCHANGED <<vert, edge, scdata, filledgebase, fillfacebase, totface>>
             ELSE IF ed2 = 0
             THEN /\ scdata' = [scdata EXCEPT ![sc].edges = <<>>]
                  /\ filledgebase' = BLI_addtail(filledgebase, ed1)
                  /\ vert' = [[[vert EXCEPT ![edge[ed1].v2].f = VERT_NEW]
                                      EXCEPT ![edge[ed1].v1].edge_count = DecU8(@)]
                                      EXCEPT ![edge[ed1].v2].edge_count = DecU8(@)]
                  /\ UNCHANGED <<edge, fillfacebase, totface, cut, sc, pc>>
             ELSE LET v1 == edge[ed1].v2
                      v2 == edge[ed1].v1
                      v3 == edge[ed2].v2
                  IN IF v1 = v2 \/ v2 = v3
                     THEN /\ sc' = sc + 1
                          /\ pc' = "scan"
                          /\ UNCHANGED <<vert, edge, scdata, filledgebase,
                                         fillfacebase, totface, cut>>
                     ELSE LET best_sc == EarSearch(vert[v1].xy, vert[v2].xy, vert[v3].xy,
                                                   Min2(vert[v1].xy[2], vert[v3].xy[2]),
                                                   sc + 1, 0)
                              r == IF best_sc # 0
                                   THEN NewDiagonal(ed2, v2, scdata[best_sc].vert)
                                   ELSE NewTriangle(ed1, ed2, v1, v2, v3)
                              l == LooseEdges([vert |-> r.vert, edges |-> r.scdata[sc].edges,
                                               closed |-> r.closed],
                                              r.edge, r.scdata[sc].edges, 1)
                          IN /\ vert' = l.vert
                             /\ edge' = r.edge
                             /\ scdata' = [r.scdata EXCEPT ![sc].edges = l.edges]
                             /\ filledgebase' = filledgebase \o l.closed
                             /\ fillfacebase' = IF best_sc # 0 THEN fillfacebase
                                                ELSE addfillface(fillfacebase, v1, v2, v3)
                             /\ totface' = IF best_sc # 0 THEN totface ELSE totface + 1
                             /\ UNCHANGED <<cut, sc, pc>>
  /\ UNCHANGED <<fillvertbase, poly_nr, input, flag, ncalls, ret, faces0, islog, abort,
                 bhit, verts, maxface, twoconnected>>
  /\ UNCHANGED calcVars
  /\ UNCHANGED sessVars

\* an end of scanfill that gives up the remaining islands after a cut:
\* C7 does not hold with it
EndScanfillAbort ==
  /\ pc = "scan"
  /\ sc > verts
  /\ totfaces' = totfaces + totface
  /\ islog' = Append(islog, [nr |-> pflist[a + 1].nr, verts |-> verts,
                             maxface |-> maxface, totface |-> totface, cut |-> cut,
                             open |-> \E k \in 1..Len(scdata) : scdata[k].edges # <<>>,
                             faces |-> fillfacebase])
  /\ a' = IF cut THEN poly ELSE a + 1
  /\ pc' = "island"
  /\ UNCHANGED ctxVars
  /\ UNCHANGED <<input, flag, ncalls, n, poly, pflist, tempve, temped, ret, faces0, abort>>
  /\ UNCHANGED fillVars
  /\ UNCHANGED sessVars

\* the end of scanfill (lines 768-772) and the rest of the loop body of
\* STEP 5 (lines 1117-1119)
EndScanfill ==
  /\ pc = "scan"
  /\ sc > verts
  /\ totfaces' = totfaces + totface
  /\ islog' = Append(islog, [nr |-> pflist[a + 1].nr, verts |-> verts,
                             maxface |-> maxface, totface |-> totface, cut |-> cut,
                             open |-> \E k \in 1..Len(scdata) : scdata[k].edges # <<>>,
                             faces |-> fillfacebase])
  /\ a' = a + 1
  /\ pc' = "island"
  /\ UNCHANGED ctxVars
  /\ UNCHANGED <<input, flag, ncalls, n, poly, pflist, tempve, temped, ret, faces0, abort>>
  /\ UNCHANGED fillVars
  /\ UNCHANGED sessVars

\* the end of calc (lines 1121-1128)
CalcReturn ==
  /\ pc = "island"
  /\ a >= poly
  /\ fillvertbase' = fillvertbase \o tempve
  /\ filledgebase' = filledgebase \o temped
  /\ Return(totfaces, "")
  /\ UNCHANGED <<vert, edge, fillfacebase, poly_nr, input, flag, ncalls, faces0, islog>>
  /\ UNCHANGED calcVars
  /\ UNCHANGED fillVars
  /\ UNCHANGED sessVars

(* ------------------------------------------------------------------ *)
(* The caller: what it adds to the context and how it calls calc       *)
(* ------------------------------------------------------------------ *)
\* an input: the points (in the plane z = 0) and the edges (pairs of
\* 1-based point numbers) in the order the caller adds them, the flag
\* arguments it may call calc with and the number of times it calls calc
\* (every time with the same flags)
Input(kind, pts, edges, flags, calls) ==
  [kind |-> kind, pts |-> pts, edges |-> edges, flags |-> flags, calls |-> calls]

\* the edges of a closed loop over points first .. first + k - 1
LoopEdges(first, k) == [i \in 1..k |-> <<first + i - 1, first + (i % k)>>]

Grid == {<<x, y>> : x \in 0..GridMax, y \in 0..GridMax}

\* p comes before q, by x and then by y
Before(p, q) == p[1] < q[1] \/ (p[1] = q[1] /\ p[2] < q[2])

\* closed loops of 3 .. MaxLoopLen distinct grid points; a loop is listed
\* once from each of its sides (the side from the last point to the first,
\* the first point being the earlier of the two), so in either direction
Loops ==
  UNION {{s \in [1..k -> Grid] :
            /\ Before(s[1], s[k])
            /\ \A i, j \in 1..k : i < j => s[i] # s[j]} :
           k \in 3..MaxLoopLen}

\* the loops need no more than a triangle for most cases: the family of
\* every closed triangle of the grid, under every flag combination
TriangleInputs ==
  {Input("loop", s, LoopEdges(1, 3), SUBSET FlagNames, 1) : s \in {t \in Loops : Len(t) = 3}}

\* twice the signed area of the triangle p q r
Orient(p, q, r) == (q[1] - p[1]) * (r[2] - p[2]) - (q[2] - p[2]) * (r[1] - p[1])
\* r lies on the closed segment p q
OnSegment(p, q, r) ==
  /\ Orient(p, q, r) = 0
  /\ Min2(p[1], q[1]) <= r[1] /\ r[1] <= Max2(p[1], q[1])
  /\ Min2(p[2], q[2]) <= r[2] /\ r[2] <= Max2(p[2], q[2])
\* the closed segments p q and r t have a common point
SegmentsMeet(p, q, r, t) ==
  \/ /\ Orient(p, q, r) # 0 /\ Orient(p, q, t) # 0
     /\ (Orient(p, q, r) > 0) # (Orient(p, q, t) > 0)
     /\ Orient(r, t, p) # 0 /\ Orient(r, t, q) # 0
     /\ (Orient(r, t, p) > 0) # (Orient(r, t, q) > 0)
  \/ OnSegment(p, q, r) \/ OnSegment(p, q, t)
  \/ OnSegment(r, t, p) \/ OnSegment(r, t, q)
\* the closed loop over the points of s is a simple polygon: the points are
\* distinct, two sides that follow each other share their common end only,
\* two other sides share nothing
IsSimple(s) ==
  LET k == Len(s)
      nxt(i) == (i % k) + 1
  IN /\ k >= 3
     /\ \A i, j \in 1..k : i < j => s[i] # s[j]
     /\ \A i \in 1..k :
          /\ ~OnSegment(s[nxt(i)], s[i], s[nxt(nxt(i))])
          /\ ~OnSegment(s[nxt(i)], s[nxt(nxt(i))], s[i])
     /\ \A i, j \in 1..k :
          (i < j /\ nxt(i) # j /\ nxt(j) # i)
            => ~SegmentsMeet(s[i], s[nxt(i)], s[j], s[nxt(j)])

\* the rotations of a loop, and of its reverse
Rotations(s) ==
  LET k == Len(s) IN
  {[i \in 1..k |-> s[((i + d - 1) % k) + 1]] : d \in 0..(k - 1)}
    \cup {[i \in 1..k |-> s[((d - i + 2 * k) % k) + 1]] : d \in 0..(k - 1)}

\* a concave L-shaped hexagon
LShape == <<<<0, 0>>, <<2, 0>>, <<2, 1>>, <<1, 1>>, <<1, 2>>, <<0, 2>>>>

\* the flag combinations the simple polygons are filled under
SimpleFlags ==
  {{}, {"REMOVE_DOUBLES"}, {"LOOSE"}, FlagNames \ {"HOLES"}, FlagNames}

\* the simple polygons: those of the grid loops, and the L-shaped hexagon
\* from every start in both directions
SimpleInputs ==
  {Input("simple", s, LoopEdges(1, Len(s)), SimpleFlags, 1) :
     s \in {t \in Loops : IsSimple(t)} \cup Rotations(LShape)}

\* an outer square of side OuterSide and a square strictly inside it, as two
\* loops; each loop from every start in both directions, either loop first
Square(x, y, side) ==
  <<<<x, y>>, <<x + side, y>>, <<x + side, y + side>>, <<x, y + side>>>>
InnerSquares ==
  {sq \in {Square(x, y, t) : x \in 1..(OuterSide - 2), y \in 1..(OuterSide - 2),
                             t \in 1..(OuterSide - 2)} :
     sq[3][1] < OuterSide /\ sq[3][2] < OuterSide}
TwoLoops(s1, s2) ==
  [pts |-> s1 \o s2, edges |-> LoopEdges(1, Len(s1)) \o LoopEdges(Len(s1) + 1, Len(s2))]
\* the flag combinations with hole detection and polygon partitioning
HoleFlags == {g \in SUBSET FlagNames : {"HOLES", "POLYS"} \subseteq g}
HoleInputs ==
  UNION {UNION {{Input("hole", TwoLoops(o, i).pts, TwoLoops(o, i).edges, HoleFlags, 1),
                 Input("hole", TwoLoops(i, o).pts, TwoLoops(i, o).edges, HoleFlags, 1)} :
                  o \in Rotations(Square(0, 0, OuterSide)), i \in Rotations(sq)} :
           sq \in InnerSquares}

\* a triangle whose first side is added k times: the first two vertices
\* have degree k + 1
Fan(k) ==
  [pts |-> <<<<0, 0>>, <<2, 0>>, <<1, 2>>>>,
   edges |-> [i \in 1..k |-> <<1, 2>>] \o <<<<2, 3>>, <<3, 1>>>>]

\* three islands side by side: a triangle, a loop that crosses itself, a
\* triangle
Cross5 == <<<<0, 0>>, <<0, 2>>, <<2, 0>>, <<0, 1>>, <<1, 1>>>>
Shift(s, dx) == [i \in 1..Len(s) |-> <<s[i][1] + dx, s[i][2]>>]
ThreeIslands ==
  [pts |-> <<<<0, 0>>, <<2, 0>>, <<1, 2>>>> \o Shift(Cross5, 4)
             \o <<<<8, 0>>, <<10, 0>>, <<9, 2>>>>,
   edges |-> LoopEdges(1, 3) \o LoopEdges(4, 5) \o LoopEdges(9, 3)]

\* hand-picked contexts: nothing at all, points without edges, an open
\* chain, a triangle with a tail, loops that cross themselves, coinciding
\* vertices, several islands
Cases ==
  {[pts |-> <<>>, edges |-> <<>>],
   [pts |-> <<<<0, 0>>>>, edges |-> <<>>],
   [pts |-> <<<<0, 0>>, <<1, 0>>, <<0, 1>>>>, edges |-> <<>>],
   [pts |-> <<<<0, 0>>, <<2, 0>>, <<1, 2>>>>, edges |-> <<<<1, 2>>, <<2, 3>>>>],
   [pts |-> <<<<0, 0>>, <<2, 0>>, <<1, 2>>, <<3, 3>>>>,
    edges |-> LoopEdges(1, 3) \o <<<<3, 4>>>>],
   [pts |-> Cross5, edges |-> LoopEdges(1, 5)],
   [pts |-> <<<<0, 0>>, <<0, 2>>, <<1, 1>>, <<0, 1>>, <<2, 1>>>>, edges |-> LoopEdges(1, 5)],
   [pts |-> <<<<0, 0>>, <<0, 0>>, <<2, 0>>, <<2, 0>>, <<1, 2>>>>,
    edges |-> <<<<1, 2>>, <<2, 1>>, <<3, 4>>, <<4, 3>>, <<5, 1>>, <<5, 3>>>>],
   [pts |-> <<<<0, 0>>, <<2, 0>>, <<1, 2>>, <<1, 1>>, <<1, 1>>, <<1, 1>>>>,
    edges |-> LoopEdges(1, 3) \o LoopEdges(4, 3)],
   ThreeIslands}
CaseInputs ==
  {Input("case", c.pts, c.edges, SUBSET FlagNames, MaxCalls) : c \in Cases}

\* the fans whose first two vertices have degree MaxEdgeCount .. MaxEdgeCount + 2,
\* and two contexts whose fill is cut at the ceiling
FanInputs ==
  {Input("fan", Fan(k).pts, Fan(k).edges, SUBSET FlagNames, MaxCalls) :
     k \in (MaxEdgeCount - 1)..(MaxEdgeCount + 1)}
    \cup {Input("case", c.pts, c.edges, SUBSET FlagNames, MaxCalls) :
            c \in {ThreeIslands, [pts |-> Cross5, edges |-> LoopEdges(1, 5)]}}

Inputs == CaseInputs \cup TriangleInputs

\* BLI_scanfill_vert_add called by the caller
AddVert ==
  /\ pc = "idle"
  /\ Len(vert) < Len(input.pts)
  /\ LET p == input.pts[Len(vert) + 1]
         c == BLI_scanfill_vert_add(
                [vert |-> vert, edge |-> edge, fillvertbase |-> fillvertbase,
                 filledgebase |-> filledgebase, fillfacebase |-> fillfacebase,
                 poly_nr |-> poly_nr], <<p[1], p[2], 0>>)
     IN vert' = c.vert /\ fillvertbase' = c.fillvertbase
  /\ UNCHANGED <<edge, filledgebase, fillfacebase, poly_nr, input, flag, pc, ncalls, ret,
                 faces0, islog, abort>>
  /\ UNCHANGED calcVars
  /\ UNCHANGED fillVars
  /\ UNCHANGED sessVars

\* BLI_scanfill_edge_add called by the caller
AddEdge ==
  /\ pc = "idle"
  /\ Len(vert) = Len(input.pts)
  /\ Len(edge) < Len(input.edges)
  /\ LET e == input.edges[Len(edge) + 1]
         c == BLI_scanfill_edge_add(
                [vert |-> vert, edge |-> edge, fillvertbase |-> fillvertbase,
                 filledgebase |-> filledgebase, fillfacebase |-> fillfacebase,
                 poly_nr |-> poly_nr], e[1], e[2])
     IN edge' = c.edge /\ filledgebase' = c.filledgebase
  /\ UNCHANGED <<vert, fillvertbase, fillfacebase, poly_nr, input, flag, pc, ncalls, ret,
                 faces0, islog, abort>>
  /\ UNCHANGED calcVars
  /\ UNCHANGED fillVars
  /\ UNCHANGED sessVars

\* the state after BLI_scanfill_begin
InitWith(inputs) ==
  /\ input \in inputs
  /\ flag = {}
  /\ vert = BLI_scanfill_begin.vert
  /\ edge = BLI_scanfill_begin.edge
  /\ fillvertbase = BLI_scanfill_begin.fillvertbase
  /\ filledgebase = BLI_scanfill_begin.filledgebase
  /\ fillfacebase = BLI_scanfill_begin.fillfacebase
  /\ poly_nr = BLI_scanfill_begin.poly_nr
  /\ pc = "idle"
  /\ ncalls = 0
  /\ n = <<0, 0, 0>>
  /\ poly = 0
  /\ pflist = <<>>
  /\ tempve = <<>>
  /\ temped = <<>>
  /\ a = 0
  /\ totfaces = 0
  /\ scdata = <<>>
  /\ bhit = {}
  /\ sc = 0
  /\ verts = 0
  /\ maxface = <<0, 0>>
  /\ totface = 0
  /\ twoconnected = FALSE
  /\ cut = FALSE
  /\ ret = <<>>
  /\ faces0 = <<>>
  /\ islog = <<>>
  /\ abort = ""
  /\ arena = "own"
  /\ memarena = [own |-> "live", A |-> "live"]
  /\ cycle = 1

Init == InitWith(Inputs)

Next ==
  \/ AddVert
  \/ AddEdge
  \/ CalcEnter
  \/ CountPolys
  \/ RemoveLoose
  \/ MakePolyFill
  \/ JoinPolys
  \/ NextIsland
  \/ ScanVert
  \/ FillStep
  \/ EndScanfill
  \/ CalcReturn

Spec == Init /\ [][Next]_vars

\* the same program, called on the simple polygons
InitSimple == InitWith(SimpleInputs)
SpecSimple == InitSimple /\ [][Next]_vars

\* the same program, called on a square inside a square
InitHoles == InitWith(HoleInputs)
SpecHoles == InitHoles /\ [][Next]_vars

\* the same program, called on the fans
InitFan == InitWith(FanInputs)
SpecFan == InitFan /\ [][Next]_vars

\* contexts with vertices on top of each other: a triangle added twice, a
\* loop through one position twice, a triangle whose corners are each two
\* vertices
SweepCases ==
  {[pts |-> <<<<0, 0>>, <<2, 0>>, <<1, 2>>, <<0, 0>>, <<2, 0>>, <<1, 2>>>>,
    edges |-> LoopEdges(1, 3) \o LoopEdges(4, 3)],
   [pts |-> <<<<0, 0>>, <<2, 0>>, <<1, 1>>, <<2, 2>>, <<0, 2>>, <<1, 1>>>>,
    edges |-> LoopEdges(1, 6)],
   [pts |-> <<<<0, 0>>, <<0, 0>>, <<2, 0>>, <<2, 0>>, <<1, 2>>, <<1, 2>>>>,
    edges |-> LoopEdges(1, 6)]}
SweepInputs ==
  CaseInputs \cup {Input("sweep", c.pts, c.edges, SUBSET FlagNames, 1) : c \in SweepCases}

\* a triangle one corner of which is three vertices, joined by up to
\* MaxZeroEdges edges of length zero in every direction and order; the
\* sides of the triangle follow
ZeroEdgeSeqs ==
  UNION {[1..k -> {e \in (1..3) \X (1..3) : e[1] # e[2]}] : k \in 0..MaxZeroEdges}
DoublesFlags == {{"REMOVE_DOUBLES"}, {"REMOVE_DOUBLES", "POLYS"}}
DoublesInputs ==
  {Input("doubles", <<<<0, 0>>, <<0, 0>>, <<0, 0>>, <<2, 0>>, <<1, 2>>>>,
         z \o <<<<3, 4>>, <<4, 5>>, <<5, 1>>>>, DoublesFlags, 1) : z \in ZeroEdgeSeqs}
SpecDoubles == InitWith(DoublesInputs) /\ [][Next]_vars

\* the corners of a square with up to MaxFloodEdges edges between them, in
\* every direction and order (an edge may come twice)
FloodEdgeSeqs ==
  UNION {[1..k -> {e \in (1..4) \X (1..4) : e[1] # e[2]}] : k \in 0..MaxFloodEdges}
FloodInputs ==
  {Input("graph", Square(0, 0, 2), z, {{"POLYS"}, FlagNames}, 1) : z \in FloodEdgeSeqs}
SpecFlood == InitWith(FloodInputs) /\ [][Next]_vars

\* a caller that numbers the polygons itself: it steps sf_ctx->poly_nr up
\* before the vertices and edges of the next polygon
SetPoly ==
  /\ pc = "idle"
  /\ ~Built
  /\ (poly_nr + 1) % UShortMod <= MaxPresetPoly
  /\ poly_nr' = (poly_nr + 1) % UShortMod
  /\ UNCHANGED <<vert, edge, fillvertbase, filledgebase, fillfacebase, input, flag, pc,
                 ncalls, ret, faces0, islog, abort>>
  /\ UNCHANGED calcVars
  /\ UNCHANGED fillVars
  /\ UNCHANGED sessVars

NextPreset ==
  \/ Next
  \/ SetPoly

\* what such a caller fills: two triangles side by side, a square
PresetInputs ==
  {Input("preset", <<<<0, 0>>, <<2, 0>>, <<1, 2>>>> \o Shift(<<<<0, 0>>, <<2, 0>>, <<1, 2>>>>, 4),
         LoopEdges(1, 3) \o LoopEdges(4, 3), {{}, {"POLYS"}, {"POLYS", "HOLES"}}, 1),
   Input("preset", Square(0, 0, 2), LoopEdges(1, 4), {{}, {"POLYS"}, {"POLYS", "HOLES"}}, 1)}
SpecPreset == InitWith(PresetInputs) /\ [][NextPreset]_vars

\* the program has a step to take: the caller has something to add or a
\* call to make, or a call is under way and has not run into a loop it
\* cannot leave
Running ==
  /\ pc \notin {"hang", "closed"}
  /\ pc \in {"idle", "done"} => (~Built \/ ncalls < input.calls)

\* the same program on these contexts.  The program is sequential and
\* nothing but itself can hold it up: it does not stop while it has a step
\* to take.  This is weak fairness of Next, with "Next is enabled" written
\* as the state predicate Running.
Fairness == []<>(~Running) \/ []<><<TRUE>>_vars
SpecSweep == InitWith(SweepInputs) /\ [][Next]_vars /\ Fairness

\* contexts of several islands and of loose ends.  A triangle with a line
\* from its top to the middle of its base, to a vertex on its first corner,
\* and with an edge apart that ends on its base; three triangles whose
\* boxes touch in a chain (the middle one first, second or last in the
\* lists), the same with a vertex alone inside the first box and a
\* triangle far away; a triangle and an open chain across its box; a
\* triangle and a triangle with a line to its base, their boxes overlapping;
\* a triangle with a tail of two edges; an open chain
IslandInputs ==
  LET Tri(x, y) == <<<<x, y>>, <<x + 2, y>>, <<x + 1, y + 2>>>>
      IslandCases ==
        {[pts |-> Tri(0, 0) \o <<<<1, 0>>>>, edges |-> LoopEdges(1, 3) \o <<<<3, 4>>>>],
         [pts |-> Tri(0, 0) \o <<<<0, 0>>>>, edges |-> LoopEdges(1, 3) \o <<<<3, 4>>>>],
         [pts |-> Tri(0, 0) \o <<<<1, 0>>, <<1, 1>>>>, edges |-> LoopEdges(1, 3) \o <<<<4, 5>>>>],
         [pts |-> Tri(0, 0) \o Tri(2, 2) \o Tri(4, 0),
          edges |-> LoopEdges(1, 3) \o LoopEdges(4, 3) \o LoopEdges(7, 3)],
         [pts |-> Tri(0, 0) \o Tri(4, 0) \o Tri(2, 2),
          edges |-> LoopEdges(1, 3) \o LoopEdges(4, 3) \o LoopEdges(7, 3)],
         [pts |-> Tri(2, 2) \o Tri(0, 0) \o Tri(4, 0),
          edges |-> LoopEdges(1, 3) \o LoopEdges(4, 3) \o LoopEdges(7, 3)],
         [pts |-> <<<<1, 1>>>> \o Tri(0, 0) \o Tri(4, 0) \o Tri(8, 4) \o Tri(2, 2),
          edges |-> LoopEdges(2, 3) \o LoopEdges(5, 3) \o LoopEdges(8, 3) \o LoopEdges(11, 3)],
         [pts |-> Tri(0, 0) \o <<<<1, 1>>, <<3, 1>>, <<3, 3>>>>,
          edges |-> LoopEdges(1, 3) \o <<<<4, 5>>, <<5, 6>>>>],
         [pts |-> Tri(0, 0) \o Tri(1, 1) \o <<<<2, 1>>>>,
          edges |-> LoopEdges(1, 3) \o LoopEdges(4, 3) \o <<<<6, 7>>>>],
         [pts |-> Tri(0, 0) \o <<<<1, 3>>, <<1, 4>>>>,
          edges |-> LoopEdges(1, 3) \o <<<<3, 4>>, <<4, 5>>>>],
         [pts |-> Tri(0, 0) \o <<<<3, 3>>>>, edges |-> <<<<2, 3>>, <<1, 2>>, <<3, 4>>>>]}
  IN {Input("islands", c.pts, c.edges, SUBSET FlagNames, 1) : c \in IslandCases}
SpecIslands == InitWith(IslandInputs) /\ [][Next]_vars

(* ------------------------------------------------------------------ *)
(* Sessions: begin, begin_arena, end, end_arena                        *)
(* ------------------------------------------------------------------ *)
\* BLI_listbase_clear
BLI_listbase_clear(list) == <<>>

\* the context and the arenas as one record, for the four functions below
Session ==
  [vert |-> vert, edge |-> edge, fillvertbase |-> fillvertbase,
   filledgebase |-> filledgebase, fillfacebase |-> fillfacebase,
   poly_nr |-> poly_nr, arena |-> arena, memarena |-> memarena]

\* BLI_memarena_new, BLI_memarena_free; BLI_memarena_clear gives back what
\* was allocated from the arena (the vertices, edges and faces) and keeps
\* the arena
BLI_memarena_new(mem, ar) == [mem EXCEPT ![ar] = "live"]
BLI_memarena_free(mem, ar) == [mem EXCEPT ![ar] = "freed"]
BLI_memarena_clear(mem, ar) == mem

\* BLI_scanfill_begin on a session record: the context of
\* BLI_scanfill_begin with an arena of its own
BeginOwn(c) ==
  BLI_scanfill_begin @@ [arena |-> "own", memarena |-> BLI_memarena_new(c.memarena, "own")]

\* BLI_scanfill_begin_arena
BLI_scanfill_begin_arena(c, ar) ==
  BLI_scanfill_begin @@ [arena |-> ar, memarena |-> c.memarena]

\* BLI_scanfill_end: what lived in the arena is gone with it
BLI_scanfill_end(c) ==
  [c EXCEPT !.memarena = BLI_memarena_free(@, c.arena),
            !.arena = "null",
            !.vert = <<>>, !.edge = <<>>,
            !.fillvertbase = BLI_listbase_clear(@),
            !.filledgebase = BLI_listbase_clear(@),
            !.fillfacebase = BLI_listbase_clear(@)]

\* an end_arena that releases the arena: C12 does not hold with it
EndArenaRelease(c, ar) ==
  [c EXCEPT !.memarena = BLI_memarena_free(@, ar),
            !.vert = <<>>, !.edge = <<>>,
            !.fillvertbase = BLI_listbase_clear(@),
            !.filledgebase = BLI_listbase_clear(@),
            !.fillfacebase = BLI_listbase_clear(@)]

\* BLI_scanfill_end_arena
BLI_scanfill_end_arena(c, ar) ==
  [c EXCEPT !.memarena = BLI_memarena_clear(@, ar),
            !.vert = <<>>, !.edge = <<>>,
            !.fillvertbase = BLI_listbase_clear(@),
            !.filledgebase = BLI_listbase_clear(@),
            !.fillfacebase = BLI_listbase_clear(@)]

\* what the sessions fill: a triangle, a square inside a square, a loop
\* that crosses itself
SessionInputs ==
  {Input("session", <<<<0, 0>>, <<2, 0>>, <<1, 2>>>>, LoopEdges(1, 3), {{}, {"LOOSE"}}, 1),
   Input("session", TwoLoops(Square(0, 0, 3), Square(1, 1, 1)).pts,
         TwoLoops(Square(0, 0, 3), Square(1, 1, 1)).edges, {{"HOLES", "POLYS"}}, 1),
   Input("session", Cross5, LoopEdges(1, 5), {{}}, 1)}

\* the context takes the fields of a session record
SetSession(c) ==
  /\ vert' = c.vert
  /\ edge' = c.edge
  /\ fillvertbase' = c.fillvertbase
  /\ filledgebase' = c.filledgebase
  /\ fillfacebase' = c.fillfacebase
  /\ poly_nr' = c.poly_nr
  /\ arena' = c.arena
  /\ memarena' = c.memarena

\* the caller opens the next session on the context, with an arena of the
\* context's own or with its arena A, for some input
BeginSession(c) ==
  /\ pc = "closed"
  /\ cycle < MaxCycles
  /\ SetSession(c)
  /\ cycle' = cycle + 1
  /\ input' \in SessionInputs
  /\ ncalls' = 0
  /\ pc' = "idle"
  /\ UNCHANGED <<flag, ret, faces0, islog, abort>>
  /\ UNCHANGED calcVars
  /\ UNCHANGED fillVars
Begin == BeginSession(BeginOwn(Session))
BeginArena == BeginSession(BLI_scanfill_begin_arena(Session, "A"))

\* the caller closes the session after calc has returned
EndSession(c) ==
  /\ pc = "done"
  /\ SetSession(c)
  /\ pc' = "closed"
  /\ UNCHANGED <<input, flag, ncalls, ret, faces0, islog, abort, cycle>>
  /\ UNCHANGED calcVars
  /\ UNCHANGED fillVars
End == arena = "own" /\ EndSession(BLI_scanfill_end(Session))
EndArena == arena = "A" /\ EndSession(BLI_scanfill_end_arena(Session, "A"))

NextSession ==
  \/ Next
  \/ Begin
  \/ BeginArena
  \/ End
  \/ EndArena

\* the same program, called in one session after the other
SpecSession == InitWith(SessionInputs) /\ [][NextSession]_vars

(* ------------------------------------------------------------------ *)
(* The properties                                                      *)
(* ------------------------------------------------------------------ *)
\* the value the last call of calc returned, and the number of faces the
\* running (or last) call has appended to the face list
LastRet == ret[Len(ret)]
Appended == Len(fillfacebase) - Len(faces0)
NewFaces == SubSeq(fillfacebase, Len(faces0) + 1, Len(fillfacebase))

\* the position of a vertex of a face: vertices are numbered in the order
\* the caller added the points
Co(v) == input.pts[v]
Abs(x) == IF x < 0 THEN -x ELSE x
FaceArea2(f) == Abs(Orient(Co(f[1]), Co(f[2]), Co(f[3])))
RECURSIVE SumArea2(_)
SumArea2(faces) ==
  IF faces = <<>> THEN 0 ELSE FaceArea2(faces[1]) + SumArea2(SubSeq(faces, 2, Len(faces)))

\* the sum of the triangle counts of the first k islands of the log
RECURSIVE SumTotface(_)
SumTotface(k) == IF k = 0 THEN 0 ELSE SumTotface(k - 1) + islog[k].totface

\* the context holds one closed loop through all its points, in order
ClosedLoop == Len(input.pts) >= 3 /\ input.edges = LoopEdges(1, Len(input.pts))
SimplePolygon == ClosedLoop /\ IsSimple(input.pts)

\* C1: a single simple closed polygon of N vertices, filled without the
\* HOLES flag, yields exactly N - 2 triangles: calc returns N - 2 and
\* appends N - 2 faces
C1_SimplePolygonCount ==
  (pc = "done" /\ SimplePolygon /\ "HOLES" \notin flag)
    => LastRet = Len(input.pts) - 2 /\ Appended = Len(input.pts) - 2

\* the concave hexagon has been filled with its four triangles
C1_Witness ==
  /\ pc = "done"
  /\ input.pts \in Rotations(LShape)
  /\ flag = FlagNames \ {"HOLES"}
  /\ ret = <<4>>
  /\ Len(fillfacebase) = 4

\* twice the area of the square whose first corner is the point first
SquareArea2(first) ==
  Abs(Orient(Co(first), Co(first + 1), Co(first + 2)))
    + Abs(Orient(Co(first), Co(first + 2), Co(first + 3)))
InnerFirst == SquareArea2(1) < SquareArea2(5)
InnerVerts == IF InnerFirst THEN 1..4 ELSE 5..8
\* the point lies in the closed inner square
InInner(p) ==
  /\ \E v \in InnerVerts : Co(v)[1] <= p[1]
  /\ \E v \in InnerVerts : Co(v)[1] >= p[1]
  /\ \E v \in InnerVerts : Co(v)[2] <= p[2]
  /\ \E v \in InnerVerts : Co(v)[2] >= p[2]

\* C2: a square inside a square, given as two loops and filled with HOLES
\* and POLYS: the two loops are filled as one island, the areas of the
\* triangles add up to the area of the outer square minus that of the
\* inner one, and no triangle lies inside the inner square
C2_SquareHole ==
  (pc = "done" /\ input.kind = "hole" /\ {"HOLES", "POLYS"} \subseteq flag)
    => /\ Len(islog) = 1 /\ islog[1].verts = Len(input.pts)
       /\ SumArea2(NewFaces) = Abs(SquareArea2(1) - SquareArea2(5))
       /\ \A k \in 1..Len(NewFaces) :
            ~ \A i \in 1..3 : InInner(Co(NewFaces[k][i]))

\* the inner loop was added first and the ring between the squares is filled
C2_Witness ==
  /\ pc = "done"
  /\ input.kind = "hole"
  /\ InnerFirst
  /\ flag = {"HOLES", "POLYS"}
  /\ ret = <<8>>
  /\ SumArea2(fillfacebase) = SquareArea2(5) - SquareArea2(1)

\* the call ran into behaviour the language leaves undefined
UndefinedAbort == abort \in {"crash_nearedge", "pflist_overrun", "crash_doubles"}

\* C3: the value calc returns is the number of faces the call appended to
\* the face list: every append goes with one increment of the island's
\* counter, and the islands' counters are added up
C3_ReturnIsAppended ==
  /\ pc \in {"scan", "fill"} => Appended = totfaces + totface
  /\ pc = "island" => Appended = totfaces /\ totfaces = SumTotface(Len(islog))
  /\ (pc = "done" /\ ~UndefinedAbort) => LastRet = Appended

\* a second call has returned its own three faces, the first call's four
\* faces not counted
C3_Witness ==
  /\ pc = "done"
  /\ abort = ""
  /\ ret = <<4, 3>>
  /\ Len(faces0) = 4
  /\ Len(fillfacebase) = 7

\* the face contains both ends of the edge
FaceHasEdge(f, e) == {e[1], e[2]} \subseteq {f[1], f[2], f[3]}

\* C10: of a simple closed polygon the loose-edge cleanup removes no edge,
\* and every edge of the boundary is a side of at least one emitted
\* triangle
C10_BoundaryCovered ==
  SimplePolygon =>
    /\ pc = "polyfill" =>
         \A e \in 1..Len(input.edges) : e \in Range(filledgebase)
    /\ pc = "done" =>
         \A e \in 1..Len(input.edges) :
           \E k \in 1..Len(NewFaces) : FaceHasEdge(NewFaces[k], input.edges[e])

\* the concave hexagon went through the loose-edge cleanup and every side
\* of it is a side of a triangle
C10_Witness ==
  /\ pc = "done"
  /\ input.pts \in Rotations(LShape)
  /\ flag = {"LOOSE"}
  /\ \A e \in 1..6 : \E k \in 1..Len(fillfacebase) : FaceHasEdge(fillfacebase[k], input.edges[e])

\* the ceiling as the number it stands for: twice the vertex count with
\* HOLES, the vertex count minus two without (no triangle at all for fewer
\* than two vertices)
Bound(nverts) == IF "HOLES" \in flag THEN 2 * nverts ELSE Max2(0, nverts - 2)

\* C4: the number of triangles an island's fill emits never exceeds its
\* ceiling, whatever the number of vertices the island enters the fill with
C4_WithinBound ==
  /\ \A k \in 1..Len(islog) : islog[k].totface <= Bound(islog[k].verts)
  /\ pc \in {"scan", "fill"} => totface <= Bound(verts)

\* the z component of the Newell sum over the points in the order they were
\* added (the points lie in the plane z = 0, the other components are zero)
RECURSIVE NewellZ(_, _)
NewellZ(s, i) ==
  IF i > Len(s) THEN 0
  ELSE LET vp == s[IF i = 1 THEN Len(s) ELSE i - 1]
       IN (vp[1] - s[i][1]) * (vp[2] + s[i][2]) + NewellZ(s, i + 1)

\* C5: when no vertex is an end of an edge, when the normal computed from
\* the vertices is zero, or when LOOSE is set and the pruning has removed
\* every edge, calc returns 0 and appends no face
C5_DegenerateReturnsZero ==
  (/\ pc = "done"
   /\ \/ Len(input.edges) = 0
      \/ NewellZ(input.pts, 1) = 0
      \/ "LOOSE" \in flag /\ abort = "all_loose")
    => LastRet = 0 /\ fillfacebase = faces0

\* an open chain of two edges has been pruned away under LOOSE
C5_Witness ==
  /\ pc = "done"
  /\ flag = {"LOOSE"}
  /\ abort = "all_loose"
  /\ Len(input.edges) = 2
  /\ NewellZ(input.pts, 1) # 0
  /\ ret = <<0>>
  /\ fillfacebase = <<>>

\* the face list as it was when the k-th island of the log began
PrevFaces(k) == IF k = 1 THEN faces0 ELSE islog[k - 1].faces
\* s is the beginning of t
IsPrefix(s, t) == Len(s) <= Len(t) /\ SubSeq(t, 1, Len(s)) = s

FilledIslands == {k \in 1..poly : pflist[k].edges > 1}

\* C7: a cut at the ceiling ends the fill of the running island only: every
\* island is filled, the faces of each stay in the face list, and calc
\* returns the sum of their counts; a call that stops at the vertex-degree
\* check leaves the face list as it found it
C7_OverflowIsLocal ==
  /\ (pc = "done" /\ abort = "") =>
       /\ Len(islog) = Cardinality(FilledIslands)
       /\ \A k \in 1..Len(islog) :
            /\ Len(islog[k].faces) = Len(PrevFaces(k)) + islog[k].totface
            /\ IsPrefix(islog[k].faces, fillfacebase)
       /\ LastRet = SumTotface(Len(islog))
       /\ Appended = LastRet
  /\ (pc = "done" /\ abort = "degree") => LastRet = 0 /\ fillfacebase = faces0

\* of three islands the second was cut, the first and the third have their
\* triangle
C7_Witness ==
  /\ pc = "done"
  /\ flag = {"POLYS"}
  /\ Len(ret) = 1
  /\ Len(islog) = 3
  /\ islog[1].totface = 1 /\ ~islog[1].cut
  /\ islog[2].totface = 3 /\ islog[2].cut
  /\ islog[3].totface = 1 /\ ~islog[3].cut
  /\ ret = <<5>>
  /\ Len(fillfacebase) = 5

\* the number of edges the caller added at the vertex v
Degree(v) ==
  Cardinality({e \in 1..Len(input.edges) : v \in {input.edges[e][1], input.edges[e][2]}})

\* C8: with LOOSE, a vertex of more than 250 edges makes calc return 0 with
\* no face appended, and a call whose vertices all have at most 250 edges is
\* never stopped by the degree check
C8_DegreeLimit ==
  (pc = "done" /\ Len(ret) = 1 /\ "LOOSE" \in flag) =>
    /\ (\E v \in 1..Len(input.pts) : Degree(v) > MaxEdgeCount)
         => ret[1] = 0 /\ fillfacebase = <<>>
    /\ (\A v \in 1..Len(input.pts) : Degree(v) <= MaxEdgeCount)
         => abort # "degree"

\* C9: a second call of calc on the same context, with the same flags and
\* nothing added in between, returns what the first call returned
C9_SecondCallSame ==
  (pc = "done" /\ Len(ret) = 2 /\ ~UndefinedAbort) => ret[2] = ret[1]

\* twice the signed area of the closed loop s by the shoelace formula
RECURSIVE Shoelace2(_, _)
Shoelace2(s, i) ==
  IF i > Len(s) THEN 0
  ELSE LET q == s[(i % Len(s)) + 1]
       IN s[i][1] * q[2] - q[1] * s[i][2] + Shoelace2(s, i + 1)

\* the input is a square of the grid with its sides along the axes, or the
\* L-shaped hexagon
SquareOrLShape ==
  \/ input.pts \in Rotations(LShape)
  \/ \E x, y \in 0..GridMax : \E side \in 1..GridMax :
       input.pts \in Rotations(Square(x, y, side))

\* C11: the areas of the triangles emitted for a simple polygon add up to
\* the shoelace area of the polygon, and no triangle emitted for a square
\* or for the L-shaped hexagon has its three corners on one line
C11_AreaConserved ==
  (pc = "done" /\ SimplePolygon) =>
    /\ SumArea2(NewFaces) = Abs(Shoelace2(input.pts, 1))
    /\ SquareOrLShape => \A k \in 1..Len(NewFaces) : FaceArea2(NewFaces[k]) # 0

\* the L-shaped hexagon of area 3 is covered by four triangles, none flat
C11_Witness ==
  /\ pc = "done"
  /\ input.pts \in Rotations(LShape)
  /\ flag = {}
  /\ Len(fillfacebase) = 4
  /\ SumArea2(fillfacebase) = 6
  /\ \A k \in 1..4 : FaceArea2(fillfacebase[k]) > 0

\* the list holds the first k elements of its arena, in the order they
\* were added
Fresh(list, k) == list = [i \in 1..k |-> i]

\* C12: a context used for one session after the other, on its own arena
\* or on the caller's arena A: while the caller adds, the lists hold what
\* was added in this session and nothing else, the face list is empty and
\* the polygon id is unset; end_arena leaves the three lists empty, the
\* arena reset and the context pointing at it, and A is never released;
\* end releases the context's own arena and leaves the context without one
C12_SessionLifecycle ==
  /\ memarena.A = "live"
  /\ pc = "idle" =>
       /\ Fresh(fillvertbase, Len(vert)) /\ Len(vert) <= Len(input.pts)
       /\ Fresh(filledgebase, Len(edge)) /\ Len(edge) <= Len(input.edges)
       /\ fillfacebase = <<>>
       /\ poly_nr = POLY_UNSET
       /\ \A v \in 1..Len(vert) : vert[v].poly_nr = POLY_UNSET
       /\ arena \in {"own", "A"} /\ memarena[arena] = "live"
  /\ pc = "closed" =>
       /\ fillvertbase = <<>> /\ filledgebase = <<>> /\ fillfacebase = <<>>
       /\ vert = <<>> /\ edge = <<>>
       /\ arena \in {"null", "A"}
       /\ arena = "null" => memarena.own = "freed"

\* the fourth session, the third on the arena A, has its vertices and edges
\* added; the sessions before it each appended faces
C12_Witness ==
  /\ pc = "idle"
  /\ cycle = MaxCycles
  /\ arena = "A"
  /\ Len(ret) = MaxCycles - 1
  /\ \A k \in 1..Len(ret) : ret[k] > 0
  /\ Len(vert) = Len(input.pts) /\ Len(edge) = Len(input.edges)
  /\ Len(edge) > 0
  /\ memarena.own = "freed"

\* what one round of the loop "while (sc->edge_first)" does
StepProgress ==
  IF scdata[sc].edges = <<>>
  THEN pc' = "scan" /\ sc' = sc + 1
  ELSE IF CeilingHit(totface, maxface)
  THEN cut' /\ pc' = "scan" /\ sc' > verts /\ fillfacebase' = fillfacebase
  ELSE \/ pc' = "scan" /\ sc' = sc + 1 /\ fillfacebase' = fillfacebase
       \/ /\ pc' = "fill" /\ totface' = totface /\ edge' = edge
          /\ scdata'[sc].edges = <<>>
          /\ Len(filledgebase') = Len(filledgebase) + 1
       \/ /\ pc' = "fill" /\ totface' = totface + 1
          /\ Len(fillfacebase') = Len(fillfacebase) + 1
          /\ UIntGe(maxface, UInt(totface'))
       \/ /\ pc' = "fill" /\ totface' = totface /\ fillfacebase' = fillfacebase
          /\ Len(edge') = Len(edge) + 1
          /\ vert[edge'[Len(edge')].v2].f = VERT_NEW
          /\ vert'[edge'[Len(edge')].v2].f = VERT_AVAILABLE

C14_RepointTerminates == pc # "hang"

\* the vertices that a path of the caller's edges joins to one of S
RECURSIVE Reach(_)
Reach(S) ==
  LET T == S \cup {v \in 1..Len(input.pts) :
                     \E e \in 1..Len(input.edges) :
                       \/ input.edges[e][1] \in S /\ input.edges[e][2] = v
                       \/ input.edges[e][2] \in S /\ input.edges[e][1] = v}
  IN IF T = S THEN S ELSE Reach(T)
\* the first vertex, in the order of the vertex list, of the component of v
FirstOf(v) == CHOOSE w \in Reach({v}) : \A u \in Reach({v}) : w <= u
\* the number of components whose first vertex comes before that of v
Rank(v) == Cardinality({FirstOf(w) : w \in 1..Len(input.pts)} \cap (1..(FirstOf(v) - 1)))
\* the sequences with the elements of s in any order
Perms(s) == {[i \in 1..Len(s) |-> s[f[i]]] : f \in Permutations(1..Len(s))}

\* C15: with POLYS, on vertices and edges whose polygon id is unset, the
\* flood fill gives two vertices the same id exactly when a path of edges
\* joins them, gives every edge the id of its two ends, numbers the
\* components 0, 1, 2, ... by their first vertex in the vertex list, and
\* gives the same ids whatever the order of the edge list
C15_FloodFill ==
  /\ (pc = "count_polys" /\ "POLYS" \in flag /\ ncalls = 1) =>
       \A order \in Perms(filledgebase) :
         FloodVerts([vert |-> vert, edge |-> edge, poly |-> 0], fillvertbase, order, 1)
           = FloodVerts([vert |-> vert, edge |-> edge, poly |-> 0],
                        fillvertbase, filledgebase, 1)
  /\ (pc = "loose" /\ "POLYS" \in flag /\ ncalls = 1) =>
       /\ \A v, w \in 1..Len(vert) :
            (vert[v].poly_nr = vert[w].poly_nr) <=> (w \in Reach({v}))
       /\ \A e \in 1..Len(edge) :
            /\ edge[e].poly_nr = vert[edge[e].v1].poly_nr
            /\ edge[e].poly_nr = vert[edge[e].v2].poly_nr
       /\ \A v \in 1..Len(vert) : vert[v].poly_nr = Rank(v)
       /\ poly = Cardinality({FirstOf(w) : w \in 1..Len(input.pts)})

\* a chain whose edges come last first, and a vertex alone: the chain is
\* polygon 0, the single vertex polygon 1
C15_Witness ==
  /\ pc = "loose"
  /\ flag = {"POLYS"}
  /\ input.edges = <<<<4, 2>>, <<2, 1>>>>
  /\ [v \in 1..4 |-> vert[v].poly_nr] = <<0, 0, 1, 0>>
  /\ poly = 2

\* C16: a polygon id set in the context on entry to calc is taken as the
\* last polygon's number: the partition step leaves every vertex's and
\* every edge's id as the caller set it, also with POLYS, and counts one
\* polygon more than that id; with the id unset and without POLYS every
\* vertex and edge of the lists gets id 0; in every case the step leaves
\* the context's id unset
C16_PresetSkipsFlood ==
  [][CountPolys =>
       /\ poly_nr' = POLY_UNSET
       /\ poly_nr # POLY_UNSET =>
            /\ \A v \in 1..Len(vert) : vert'[v].poly_nr = vert[v].poly_nr
            /\ \A e \in 1..Len(edge) : edge'[e].poly_nr = edge[e].poly_nr
            /\ poly' = poly_nr + 1
       /\ (poly_nr = POLY_UNSET /\ "POLYS" \notin flag) =>
            /\ \A v \in Range(fillvertbase) : vert'[v].poly_nr = 0
            /\ \A e \in Range(filledgebase) : edge'[e].poly_nr = 0
            /\ poly' = 1]_vars

\* one closed square that the caller gave as polygons 0 and 1 is taken as
\* two polygons, POLYS or not
C16_Witness ==
  /\ pc = "loose"
  /\ "POLYS" \in flag
  /\ input.pts = Square(0, 0, 2)
  /\ [v \in 1..4 |-> vert[v].poly_nr] = <<0, 0, 1, 1>>
  /\ poly = 2
  /\ poly_nr = POLY_UNSET

\* the island the loop of STEP 5 is about to sweep, and what splitlist
\* selects for it
Sweeping == pc = "island" /\ a < poly /\ pflist[a + 1].edges > 1
Selected ==
  splitlist(vert, edge, fillvertbase, filledgebase, tempve, temped, pflist[a + 1].nr)

\* C17: when the sweep of an island begins, every edge selected for the
\* island has the island's polygon id, and so have both its ends: after
\* the flood fill, after a loose end was joined to a vertex or put into an
\* edge, and after islands were merged
C17_IslandIdsAgree ==
  Sweeping =>
    \A e \in Range(Selected.filledgebase) :
      /\ edge[e].poly_nr = pflist[a + 1].nr
      /\ vert[edge[e].v1].poly_nr = edge[e].poly_nr
      /\ vert[edge[e].v2].poly_nr = edge[e].poly_nr

\* a triangle and, second in the lists, a triangle with a line from its
\* top to its base: flood fill made them islands 0 and 1, the line's loose
\* end was put into the base (one edge more than the caller added), the
\* merge took island 1 into island 0, and all eight edges are selected
C17_Witness ==
  /\ Sweeping
  /\ flag = {"POLYS", "HOLES", "LOOSE"}
  /\ Len(input.pts) = 7
  /\ input.edges[4] = <<4, 5>>
  /\ Len(edge) = Len(input.edges) + 1
  /\ a = 0
  /\ Len(Selected.filledgebase) = 8
  /\ edge[8].v2 = 7

\* the state in which the pruning loop of STEP 2 starts (line 975), from
\* the state in which STEP 2 starts
PruneStart ==
  LET d == DegreeCount([vert |-> vert, over |-> FALSE], edge, filledgebase, 1)
      t == testvertexnearedge([vert |-> d.vert, edge |-> edge,
                               filledgebase |-> filledgebase, crash |-> FALSE],
                              fillvertbase, 1)
  IN [over |-> d.over, crash |-> t.crash, edge |-> t.edge,
      st |-> [vert |-> t.vert, fillvertbase |-> fillvertbase,
              filledgebase |-> t.filledgebase, ok |-> FALSE]]
\* the executions of the loop body in one pass over `order`, each as
\* <<state before, edge, state after>>
PassSteps(st, es, order) ==
  LET states == [k \in 0..Len(order) |-> PrunePass(st, es, SubSeq(order, 1, k), 1)]
  IN {<<states[k - 1], order[k], states[k]>> : k \in 1..Len(order)}
\* the same over all the passes of the loop, and the number of passes
RECURSIVE PruneSteps(_, _, _)
PruneSteps(st, es, toggle) ==
  LET order == IF (toggle + 1) % 2 = 1 THEN st.filledgebase ELSE Reverse(st.filledgebase)
      r == PrunePass([st EXCEPT !.ok = FALSE], es, order, 1)
  IN PassSteps([st EXCEPT !.ok = FALSE], es, order)
       \cup (IF r.ok THEN PruneSteps(r, es, toggle + 1) ELSE {})
RECURSIVE PrunePasses(_, _, _)
PrunePasses(st, es, toggle) ==
  LET order == IF (toggle + 1) % 2 = 1 THEN st.filledgebase ELSE Reverse(st.filledgebase)
      r == PrunePass([st EXCEPT !.ok = FALSE], es, order, 1)
  IN IF r.ok THEN 1 + PrunePasses(r, es, toggle + 1) ELSE 1
\* one execution of the loop body on edge e: an edge with an end of
\* counter 1 goes out of the edge list, that end (v1 before v2) out of the
\* vertex list, the other end's counter goes down by one and nothing else
\* changes; any other edge changes nothing
PruneStepOk(s, e, r, es) ==
  LET leaf == IF s.vert[es[e].v1].edge_count = 1 THEN es[e].v1 ELSE es[e].v2
      other == IF s.vert[es[e].v1].edge_count = 1 THEN es[e].v2 ELSE es[e].v1
  IN IF s.vert[leaf].edge_count = 1
     THEN /\ r.filledgebase = SelectSeq(s.filledgebase, LAMBDA x : x # e)
          /\ Len(r.filledgebase) = Len(s.filledgebase) - 1
          /\ r.fillvertbase = SelectSeq(s.fillvertbase, LAMBDA x : x # leaf)
          /\ Len(r.fillvertbase) = Len(s.fillvertbase) - 1
          /\ r.vert[other].edge_count = s.vert[other].edge_count - 1
          /\ \A v \in DOMAIN s.vert : v # other => r.vert[v] = s.vert[v]
     ELSE /\ r.filledgebase = s.filledgebase
          /\ r.fillvertbase = s.fillvertbase
          /\ r.vert = s.vert

\* C18: with LOOSE, when the degree count and the near-edge test went
\* through, the pruning loop ends after at most one pass more than there
\* are edges; every execution of its body is as PruneStepOk says; when it
\* has ended no edge of the edge list has an end whose counter is 1; and
\* with the edge list empty calc returns 0, with edges left it goes on
C18_LeafPruning ==
  [][(RemoveLoose /\ "LOOSE" \in flag /\ ~PruneStart.over /\ ~PruneStart.crash) =>
       /\ PrunePasses(PruneStart.st, PruneStart.edge, 0)
            <= Len(PruneStart.st.filledgebase) + 1
       /\ \A x \in PruneSteps(PruneStart.st, PruneStart.edge, 0) :
            PruneStepOk(x[1], x[2], x[3], PruneStart.edge)
       /\ \A e \in Range(filledgebase') :
            /\ vert'[edge'[e].v1].edge_count # 1
            /\ vert'[edge'[e].v2].edge_count # 1
       /\ IF filledgebase' = <<>>
          THEN pc' = "done" /\ ret' = Append(ret, 0)
          ELSE pc' = "polyfill" /\ ret' = ret]_vars

\* a triangle with a tail of two edges: the first pass takes the outer
\* edge of the tail, the second the inner one; the triangle is left
C18_Witness ==
  /\ pc = "polyfill"
  /\ "LOOSE" \in flag
  /\ input.edges = LoopEdges(1, 3) \o <<<<3, 4>>, <<4, 5>>>>
  /\ filledgebase = <<1, 2, 3>>
  /\ fillvertbase = <<1, 2, 3>>
  /\ vert[3].edge_count = 2

\* the boxes of two island descriptors have a point in common
BoxesOverlap(p, q) ==
  /\ p.min_xy[1] <= q.max_xy[1] /\ q.min_xy[1] <= p.max_xy[1]
  /\ p.min_xy[2] <= q.max_xy[2] /\ q.min_xy[2] <= p.max_xy[2]
\* the islands (numbered from 0) that a chain of islands with overlapping
\* boxes links to one of S
RECURSIVE Chain(_, _)
Chain(pfl, S) ==
  LET T == S \cup {j \in 0..(Len(pfl) - 1) :
                     \E i \in S : BoxesOverlap(pfl[i + 1], pfl[j + 1])}
  IN IF T = S THEN S ELSE Chain(pfl, T)
\* STEP 4 is about to run its two loops
Joining == pc = "join" /\ "HOLES" \in flag /\ poly > 1

\* C19: with HOLES and more than one island, in the target map as lines
\* 1076-1081 fill it, two islands that have edges have the same target
\* exactly when a chain of islands with overlapping boxes (the boxes of
\* STEP 3) links them; the target of an island with edges is the lowest
\* island with edges of its chain; a target is its own target and is not
\* above the island; an island without edges is its own target and
\* nobody else's
C19_TargetMap ==
  Joining =>
    LET tm == TargetMap(pflist)
        I == 0..(poly - 1)
        E == {i \in I : pflist[i + 1].edges > 0}
    IN /\ \A i, j \in E : (tm[i + 1] = tm[j + 1]) <=> (j \in Chain(pflist, {i}))
       /\ \A i \in E : /\ tm[i + 1] \in Chain(pflist, {i}) \cap E
                        /\ \A j \in Chain(pflist, {i}) \cap E : tm[i + 1] <= j
       /\ \A i \in I : tm[tm[i + 1] + 1] = tm[i + 1] /\ tm[i + 1] <= i
       /\ \A i \in I \ E : tm[i + 1] = i /\ \A j \in I \ {i} : tm[j + 1] # i

\* a vertex alone inside the box of the triangle after it, then a triangle
\* apart from that one, a triangle far away and a triangle touching the
\* boxes of the first two: islands 1, 2 and 4 go to island 1, the vertex
\* and the far triangle stay
C19_Witness ==
  /\ Joining
  /\ Len(input.pts) = 13
  /\ flag = {"POLYS", "HOLES"}
  /\ poly = 5
  /\ pflist[1].edges = 0
  /\ BoxesOverlap(pflist[1], pflist[2])
  /\ ~BoxesOverlap(pflist[2], pflist[3])
  /\ TargetMap(pflist) = <<0, 1, 1, 3, 1>>

\* sums over the island descriptors, and the extremes of a set of numbers
SumVerts(pfl) == LET Op(t, k) == t + pfl[k].verts IN Fold(Op, 0, 1, Len(pfl))
SumEdges(pfl) == LET Op(t, k) == t + pfl[k].edges IN Fold(Op, 0, 1, Len(pfl))
MinOf(S) == CHOOSE x \in S : \A y \in S : x <= y
MaxOf(S) == CHOOSE x \in S : \A y \in S : x >= y

\* C20: the join loop of STEP 4 keeps the sum of the descriptors' vertex
\* counts and the sum of their edge counts; an island whose target is
\* another island ends with counts 0; every vertex of the vertex list and
\* every edge of the edge list ends with the id of the target of the
\* island it was in, so none of them has the id of an island merged away;
\* and an island that is its own target ends with the smallest box around
\* the boxes of the islands whose target it is, and is valid exactly when
\* one of them was
C20_JoinConserves ==
  [][(JoinPolys /\ Joining) =>
       LET tm == TargetMap(pflist)
           I == 0..(poly - 1)
           G(r) == {i \in I : tm[i + 1] = r}
       IN /\ SumVerts(pflist') = SumVerts(pflist)
          /\ SumEdges(pflist') = SumEdges(pflist)
          /\ \A i \in I : tm[i + 1] # i =>
                pflist'[i + 1].verts = 0 /\ pflist'[i + 1].edges = 0
          /\ \A v \in Range(fillvertbase) :
                /\ vert'[v].poly_nr = tm[vert[v].poly_nr + 1]
                /\ tm[vert'[v].poly_nr + 1] = vert'[v].poly_nr
          /\ \A e \in Range(filledgebase) :
                /\ edge'[e].poly_nr = tm[edge[e].poly_nr + 1]
                /\ tm[edge'[e].poly_nr + 1] = edge'[e].poly_nr
          /\ \A r \in I : tm[r + 1] = r =>
                /\ pflist'[r + 1].nr = r
                /\ pflist'[r + 1].min_xy
                     = <<MinOf({pflist[i + 1].min_xy[1] : i \in G(r)}),
                         MinOf({pflist[i + 1].min_xy[2] : i \in G(r)})>>
                /\ pflist'[r + 1].max_xy
                     = <<MaxOf({pflist[i + 1].max_xy[1] : i \in G(r)}),
                         MaxOf({pflist[i + 1].max_xy[2] : i \in G(r)})>>
                /\ (pflist'[r + 1].f = POLY_VALID)
                     <=> (\E i \in G(r) : pflist[i + 1].f = POLY_VALID)
                /\ pflist'[r + 1].f \in {POLY_NEW, POLY_VALID}]_vars

\* a triangle and, after it, a triangle with a line from its top to its
\* base, put into the base by the near-edge test: island 1, valid by the
\* vertex of three edges, went into island 0, which was not valid and now
\* is, with all 7 vertices and 8 edges and the box around both (the
\* projection turns x into -x)
C20_Witness ==
  /\ pc = "island"
  /\ a = 0
  /\ flag = {"POLYS", "HOLES", "LOOSE"}
  /\ Len(input.pts) = 7
  /\ input.edges[4] = <<4, 5>>
  /\ poly = 2
  /\ pflist[1] = [edges |-> 8, verts |-> 7, min_xy |-> <<-3, 0>>, max_xy |-> <<0, 3>>,
                   f |-> POLY_VALID, nr |-> 0]
  /\ pflist[2].verts = 0 /\ pflist[2].edges = 0
  /\ \A v \in 1..7 : vert[v].poly_nr = 0
  /\ \A e \in 1..8 : edge[e].poly_nr = 0

\* the sweep of an island is under way: its scan-link array is built
InSweep == pc \in {"scan", "fill"}
\* the projected coordinate of the vertex of scan link k
ScXY(k) == vert[scdata[k].vert].xy

\* C21 as stated: the scan-link array is in descending Y and, within a
\* row, descending X, and no two links compare equal
C21_DescYDescX ==
  InSweep =>
    \A i, j \in 1..Len(scdata) :
      i < j => \/ ScXY(i)[2] > ScXY(j)[2]
               \/ ScXY(i)[2] = ScXY(j)[2] /\ ScXY(i)[1] > ScXY(j)[1]

\* C21 amended: the scan-link array holds each vertex of the island that
\* is not ZERO_LEN when the sweep starts once, in descending Y and, within
\* a row, ascending X;
\* the comparator returns 0 exactly for equal projected coordinates, so
\* two vertices on one point compare equal and stand next to each other
C21_DescYAscX ==
  InSweep =>
    /\ \A i, j \in 1..Len(scdata) :
         /\ i < j => \/ ScXY(i)[2] > ScXY(j)[2]
                     \/ ScXY(i)[2] = ScXY(j)[2] /\ ScXY(i)[1] <= ScXY(j)[1]
         /\ i < j => scdata[i].vert # scdata[j].vert
         /\ (vergscdata(vert[scdata[i].vert], vert[scdata[j].vert]) = 0)
              <=> (ScXY(i) = ScXY(j))
         /\ vergscdata(vert[scdata[i].vert], vert[scdata[j].vert])
              = -vergscdata(vert[scdata[j].vert], vert[scdata[i].vert])
    /\ (pc = "scan" /\ sc = 1) =>
         {scdata[k].vert : k \in 1..Len(scdata)}
           = {v \in Range(fillvertbase) :
                vert[v].poly_nr = pflist[a + 1].nr /\ vert[v].f # VERT_ZERO_LEN}

\* a row of two vertices with the smaller x first, and two vertices on one
\* point next to each other, the later added one first
C21_Witness ==
  /\ InSweep
  /\ \E i \in 1..(Len(scdata) - 1) :
       ScXY(i)[2] = ScXY(i + 1)[2] /\ ScXY(i)[1] < ScXY(i + 1)[1]
  /\ \E i \in 1..(Len(scdata) - 1) :
       ScXY(i) = ScXY(i + 1) /\ scdata[i].vert > scdata[i + 1].vert

\* the index of the scan link of vertex v, 0 when it has none
ScIndex(v) ==
  IF \E k \in 1..Len(scdata) : scdata[k].vert = v
  THEN CHOOSE k \in 1..Len(scdata) : scdata[k].vert = v ELSE 0

\* C22: during the sweep every edge in the edge list of a scan link has
\* the link's vertex as its v1, and its v2 has a link later in the array,
\* also for vertices whose projected coordinates are the same
C22_EdgeAtUpperVertex ==
  InSweep =>
    \A k \in 1..Len(scdata) : \A e \in Range(scdata[k].edges) :
      /\ edge[e].v1 = scdata[k].vert
      /\ ScIndex(edge[e].v2) > k

EndPair(e) == {edge[e].v1, edge[e].v2}

\* C23: during the sweep no two edges in the edge list of one scan link
\* have the same pair of end vertices.
C23_NoDuplicateEdge ==
  InSweep => \A k \in 1..Len(scdata) :
    \A i, j \in 1..Len(scdata[k].edges) :
      i # j => EndPair(scdata[k].edges[i]) # EndPair(scdata[k].edges[j])

\* the cross product testedgeside takes the sign of
Inp(p1, p2, p3) == (p2[1] - p1[1]) * (p1[2] - p3[2]) + (p1[2] - p2[2]) * (p1[1] - p3[1])

\* a turn of the while loop that has two edges and three corners to test
EarTurn ==
  /\ pc = "fill"
  /\ Len(scdata[sc].edges) > 1
  /\ ~CeilingHit(totface, maxface)
  /\ edge[scdata[sc].edges[1]].v2 # edge[scdata[sc].edges[1]].v1
  /\ edge[scdata[sc].edges[1]].v1 # edge[scdata[sc].edges[2]].v2

EarV1 == vert[edge[scdata[sc].edges[1]].v2].xy
EarV2 == vert[edge[scdata[sc].edges[1]].v1].xy
EarV3 == vert[edge[scdata[sc].edges[2]].v2].xy

\* the vertices the ear search looks at: later links, flagged NEW, above miny
Examined(b) ==
  /\ b > sc
  /\ vert[scdata[b].vert].f = VERT_NEW
  /\ vert[scdata[b].vert].xy[2] > Min2(EarV1[2], EarV3[2])

StrictlyInside(q) ==
  Inp(EarV1, EarV2, q) > 0 /\ Inp(EarV2, EarV3, q) > 0 /\ Inp(EarV3, EarV1, q) > 0

\* inside the triangle or on a side line of it, but on none of its corners
InsideOrOnSide(q) ==
  /\ Inp(EarV1, EarV2, q) >= 0 /\ Inp(EarV2, EarV3, q) >= 0 /\ Inp(EarV3, EarV1, q) >= 0
  /\ q # EarV1 /\ q # EarV2 /\ q # EarV3

\* the turn added a diagonal and no triangle
DiagonalAdded == Len(edge') = Len(edge) + 1 /\ totface' = totface

\* C24 as stated: the vertex a diagonal is drawn to was examined and lies
\* strictly inside the triangle (v1, v2, v3).
C24_StrictlyInside ==
  [][(EarTurn /\ DiagonalAdded) =>
       /\ Examined(ScIndex(edge'[Len(edge')].v2))
       /\ StrictlyInside(vert[edge'[Len(edge')].v2].xy)]_vars

\* C24 amended: the vertex a diagonal is drawn to was examined and lies
\* inside the triangle or on one of its side lines, on no corner; and a
\* diagonal is drawn exactly when there is such a vertex.
C24_InsideOrOnSide ==
  [][EarTurn =>
       /\ DiagonalAdded =>
            /\ edge'[Len(edge')].v1 = edge[scdata[sc].edges[1]].v1
            /\ Examined(ScIndex(edge'[Len(edge')].v2))
            /\ InsideOrOnSide(vert[edge'[Len(edge')].v2].xy)
       /\ DiagonalAdded <=>
            \E b \in 1..Len(scdata) : Examined(b) /\ InsideOrOnSide(ScXY(b))]_vars

\* a diagonal has just been drawn from the scan vertex to a vertex that lies
\* on the side line v1 v2 of the triangle, between the corners
C24_Witness ==
  /\ pc = "fill"
  /\ Len(scdata[sc].edges) > 2
  /\ LET d == edge[scdata[sc].edges[2]]
         p1 == vert[edge[scdata[sc].edges[1]].v2].xy
         p2 == vert[scdata[sc].vert].xy
         p3 == vert[edge[scdata[sc].edges[3]].v2].xy
         q == vert[d.v2]
     IN /\ d.f = EDGE_INTERNAL
        /\ d.v1 = scdata[sc].vert
        /\ q.f = VERT_AVAILABLE
        /\ Inp(p1, p2, q.xy) = 0
        /\ Inp(p2, p3, q.xy) > 0
        /\ Inp(p3, p1, q.xy) > 0
        /\ q.xy # p1 /\ q.xy # p2

\* the turn emitted a triangle
TriangleAdded == totface' = totface + 1

EarEd1 == scdata[sc].edges[1]
EarEd2 == scdata[sc].edges[2]

\* the edges lines 704-716 and 733-743 move to filledgebase in this turn
EmissionClosed ==
  Range(NewTriangle(EarEd1, EarEd2, edge[EarEd1].v2, edge[EarEd1].v1, edge[EarEd2].v2).closed)

\* C25 as stated: after a triangle ed1 is closed, and the emission closes
\* ed2 exactly when ed2 is not INTERNAL and the call asked for holes.
C25_ClosedOnHolesFlag ==
  [][(EarTurn /\ TriangleAdded) =>
       /\ EarEd1 \in EmissionClosed
       /\ EarEd2 \in EmissionClosed
            <=> (edge[EarEd2].f # EDGE_INTERNAL /\ "HOLES" \in flag)]_vars

\* C25 amended: after a triangle ed1 is closed, and the emission closes
\* ed2 exactly when ed2 is not INTERNAL and the island is two-connected,
\* that is its poly flag is still SF_POLY_NEW; a closed edge has left the
\* link and stands in filledgebase, and an ed2 that is not closed stays in
\* the link unless the loose-edge test takes it.
C25_ClosedOnTwoconnected ==
  [][(EarTurn /\ TriangleAdded) =>
       /\ twoconnected <=> (pflist[a + 1].f = POLY_NEW)
       /\ EarEd1 \in EmissionClosed
       /\ EarEd2 \in EmissionClosed
            <=> (edge[EarEd2].f # EDGE_INTERNAL /\ pflist[a + 1].f = POLY_NEW)
       /\ \A e \in EmissionClosed :
            /\ e \notin Range(scdata'[sc].edges)
            /\ e \in Range(filledgebase') \ Range(filledgebase)
       /\ (EarEd2 \notin EmissionClosed
           /\ DecU8(vert[edge[EarEd1].v1].edge_count) >= 2
           /\ vert'[edge[EarEd2].v2].edge_count >= 2)
            => EarEd2 \in Range(scdata'[sc].edges)]_vars

\* a call without HOLES has emitted a triangle whose ed1 and ed2 were both
\* closed by the emission: the two edges are the last of filledgebase, ed2
\* is an input edge and the counter of the scan vertex went from 2 to 0
C25_Witness ==
  /\ pc = "fill"
  /\ "HOLES" \notin flag
  /\ twoconnected
  /\ fillfacebase # <<>>
  /\ Len(filledgebase) >= 2
  /\ LET f == fillfacebase[Len(fillfacebase)]
         e1 == edge[filledgebase[Len(filledgebase) - 1]]
         e2 == edge[filledgebase[Len(filledgebase)]]
     IN /\ f[2] = scdata[sc].vert
        /\ e1.v1 = f[2] /\ e1.v2 = f[1]
        /\ e2.v1 = f[2] /\ e2.v2 = f[3]
        /\ e2.f = EDGE_NEW
        /\ vert[f[2]].edge_count = 0
        /\ scdata[sc].edges = <<>>

\* the edges that stand in a scan link
LinkEdges == UNION {Range(scdata[k].edges) : k \in 1..Len(scdata)}

\* the sweep of an island is about to start: every input edge of the island
\* has gone through lines 517-557
SweepStart == pc = "scan" /\ sc = 1

\* C26: every edge that stands in a scan link joins two different vertices,
\* and in a call with REMOVE_DOUBLES two vertices on different projected
\* coordinates.
C26_NoZeroLengthEdge ==
  InSweep => \A e \in LinkEdges :
    /\ edge[e].v1 # edge[e].v2
    /\ "REMOVE_DOUBLES" \in flag => vert[edge[e].v1].xy # vert[edge[e].v2].xy

\* the vertices that have a link in the scan-link array of this fill
LinkVerts == {scdata[k].vert : k \in 1..Len(scdata)}

\* C27: a triangle appended to the face list has three different
\* vertices, all of the island being filled and all with a scan link in this
\* fill (none was flagged ZERO_LEN when the links were made).
C27_FaceOfIsland ==
  [][(pc = "fill" /\ Len(fillfacebase') = Len(fillfacebase) + 1) =>
       LET f == fillfacebase'[Len(fillfacebase')]
       IN /\ f[1] # f[2] /\ f[2] # f[3] /\ f[1] # f[3]
          /\ \A i \in 1..3 : /\ vert[f[i]].poly_nr = pflist[a + 1].nr
                             /\ f[i] \in LinkVerts]_vars

\* the number of edge ends in filledgebase that reference the vertex v
EndsAt(v) ==
  Cardinality({k \in 1..Len(filledgebase) : edge[filledgebase[k]].v1 = v})
  + Cardinality({k \in 1..Len(filledgebase) : edge[filledgebase[k]].v2 = v})

\* STEP 2 of a call with LOOSE has run to its end with edges left
AfterLoose == pc = "polyfill" /\ "LOOSE" \in flag

\* C28: after STEP 2 of a call with LOOSE the counter of every vertex in
\* the vertex list is the number of edge ends in the edge list that
\* reference it.
C28_CounterIsDegree ==
  AfterLoose => \A v \in Range(fillvertbase) : vert[v].edge_count = EndsAt(v)

\* C29: when the sweep of a call with REMOVE_DOUBLES starts, every edge in
\* a scan link has both end vertices in the scan-link array, and every
\* point of the island that carries a vertex has exactly one link.
C29_EdgesOnRepresentatives ==
  (SweepStart /\ "REMOVE_DOUBLES" \in flag) =>
    /\ \A e \in LinkEdges : edge[e].v1 \in LinkVerts /\ edge[e].v2 \in LinkVerts
    /\ \A v \in Range(fillvertbase) :
         (vert[v].poly_nr = pflist[a + 1].nr
          /\ \E w \in Range(fillvertbase) :
               /\ w # v /\ vert[w].xy = vert[v].xy
               /\ \E k \in 1..Len(input.edges) :
                    {input.edges[k][1], input.edges[k][2]} = {v, w})
         => Cardinality({u \in LinkVerts : vert[u].xy = vert[v].xy}) = 1

\* the number of ends of edges standing in scan links that reference v
OpenAt(v) ==
  Cardinality({e \in LinkEdges : edge[e].v1 = v})
  + Cardinality({e \in LinkEdges : edge[e].v2 = v})

\* C30: during the sweep the counter of a vertex is at least the number of
\* open edge ends at it, and no step of the sweep takes a counter below 0:
\* a counter that wrapped would stand near 255.
C30_CounterCoversOpenEdges ==
  InSweep => \A v \in Range(fillvertbase) :
    /\ vert[v].edge_count >= OpenAt(v)
    /\ vert[v].edge_count <= Len(edge) + Len(edge)
====
